---- MODULE Spec2Model ----
(***************************************************************************)
(* FixMyPrompt backend server (src/index.js): keyword domain classifier,   *)
(* question catalog, in-memory context store, prompt quality scorer,       *)
(* instruction assembly and the /api endpoints.                            *)
(*                                                                         *)
(* Text that the code searches (prompts, scored text) is a sequence of     *)
(* one-character strings; text that the code only compares for equality    *)
(* or copies (question texts, ids, domain names) is a TLA+ string.         *)
(***************************************************************************)
EXTENDS Integers, Sequences, FiniteSets, TLC

\* ------------------------------------------------------------------------
\* Bounds of the model
\* ------------------------------------------------------------------------
\* fragments per classifier prompt
MaxTokens == 2
\* fragments per scored text
MaxScoreTokens == 3
\* entries of context.questionsAsked
MaxAsked == 3
\* last reading of the clock behind new Date()
MaxClock == 2
\* entries of context.previousPrompts
MaxPrevious == 4
\* requests of one client beyond the rate limit in one window
MaxOverLimit == 1
\* changes callers make to results of generateQuestions
MaxMutations == 2
\* context requests in flight at the same time
MaxInFlight == 3

\* ------------------------------------------------------------------------
\* JavaScript string primitives
\* ------------------------------------------------------------------------
UpperChars == <<"A","B","C","D","E","F","G","H","I","J","K","L","M","N","O","P","Q","R","S","T","U","V","W","X","Y","Z">>
LowerChars == <<"a","b","c","d","e","f","g","h","i","j","k","l","m","n","o","p","q","r","s","t","u","v","w","x","y","z">>

\* String.prototype.toLowerCase on one character
LowerChar(c) ==
    IF \E i \in 1..26 : UpperChars[i] = c
    THEN LowerChars[CHOOSE i \in 1..26 : UpperChars[i] = c]
    ELSE c

\* String.prototype.toLowerCase
ToLowerCase(s) == [i \in 1..Len(s) |-> LowerChar(s[i])]

\* String.prototype.includes: k occurs in s as a contiguous substring
Includes(s, k) ==
    \E i \in 1..(Len(s) - Len(k) + 1) : \A j \in 1..Len(k) : s[i + j - 1] = k[j]

\* concatenation of a sequence of texts
RECURSIVE Concat(_)
Concat(ts) == IF ts = <<>> THEN <<>> ELSE Head(ts) \o Concat(Tail(ts))

\* sequences over S of length 0..n
SeqUpTo(S, n) == UNION {[1..k -> S] : k \in 0..n}

\* ------------------------------------------------------------------------
\* DOMAIN DETECTION SERVICE
\* ------------------------------------------------------------------------
\* Object.keys(DOMAIN_KEYWORDS): insertion order of the table
DomainOrder ==
    <<"technical", "creative", "business", "finance", "academic", "career", "hr", "personal", "fitness", "health", "relationships", "hobbies", "mental_health", "personal_development", "education">>

\* keywords of each profile, each keyword a sequence of characters
DOMAIN_KEYWORDS_keywords ==
       "technical" :>   \* code, python, javascript, function, algorithm, debug, api, database, server, optimize, performance, sql, react, node, git, docker, aws, programming, software, development, framework, library
        << <<"c", "o", "d", "e">>,
           <<"p", "y", "t", "h", "o", "n">>,
           <<"j", "a", "v", "a", "s", "c", "r", "i", "p", "t">>,
           <<"f", "u", "n", "c", "t", "i", "o", "n">>,
           <<"a", "l", "g", "o", "r", "i", "t", "h", "m">>,
           <<"d", "e", "b", "u", "g">>,
           <<"a", "p", "i">>,
           <<"d", "a", "t", "a", "b", "a", "s", "e">>,
           <<"s", "e", "r", "v", "e", "r">>,
           <<"o", "p", "t", "i", "m", "i", "z", "e">>,
           <<"p", "e", "r", "f", "o", "r", "m", "a", "n", "c", "e">>,
           <<"s", "q", "l">>,
           <<"r", "e", "a", "c", "t">>,
           <<"n", "o", "d", "e">>,
           <<"g", "i", "t">>,
           <<"d", "o", "c", "k", "e", "r">>,
           <<"a", "w", "s">>,
           <<"p", "r", "o", "g", "r", "a", "m", "m", "i", "n", "g">>,
           <<"s", "o", "f", "t", "w", "a", "r", "e">>,
           <<"d", "e", "v", "e", "l", "o", "p", "m", "e", "n", "t">>,
           <<"f", "r", "a", "m", "e", "w", "o", "r", "k">>,
           <<"l", "i", "b", "r", "a", "r", "y">> >>
    @@ "creative" :>   \* story, write, poem, creative, fiction, character, plot, dialogue, narrative, script, song, art, design, visual, imagine, brainstorm, idea, concept
        << <<"s", "t", "o", "r", "y">>,
           <<"w", "r", "i", "t", "e">>,
           <<"p", "o", "e", "m">>,
           <<"c", "r", "e", "a", "t", "i", "v", "e">>,
           <<"f", "i", "c", "t", "i", "o", "n">>,
           <<"c", "h", "a", "r", "a", "c", "t", "e", "r">>,
           <<"p", "l", "o", "t">>,
           <<"d", "i", "a", "l", "o", "g", "u", "e">>,
           <<"n", "a", "r", "r", "a", "t", "i", "v", "e">>,
           <<"s", "c", "r", "i", "p", "t">>,
           <<"s", "o", "n", "g">>,
           <<"a", "r", "t">>,
           <<"d", "e", "s", "i", "g", "n">>,
           <<"v", "i", "s", "u", "a", "l">>,
           <<"i", "m", "a", "g", "i", "n", "e">>,
           <<"b", "r", "a", "i", "n", "s", "t", "o", "r", "m">>,
           <<"i", "d", "e", "a">>,
           <<"c", "o", "n", "c", "e", "p", "t">> >>
    @@ "business" :>   \* business, marketing, sales, strategy, revenue, customer, product, market, growth, roi, profit, investment, startup, entrepreneur, brand, campaign, analytics, metrics
        << <<"b", "u", "s", "i", "n", "e", "s", "s">>,
           <<"m", "a", "r", "k", "e", "t", "i", "n", "g">>,
           <<"s", "a", "l", "e", "s">>,
           <<"s", "t", "r", "a", "t", "e", "g", "y">>,
           <<"r", "e", "v", "e", "n", "u", "e">>,
           <<"c", "u", "s", "t", "o", "m", "e", "r">>,
           <<"p", "r", "o", "d", "u", "c", "t">>,
           <<"m", "a", "r", "k", "e", "t">>,
           <<"g", "r", "o", "w", "t", "h">>,
           <<"r", "o", "i">>,
           <<"p", "r", "o", "f", "i", "t">>,
           <<"i", "n", "v", "e", "s", "t", "m", "e", "n", "t">>,
           <<"s", "t", "a", "r", "t", "u", "p">>,
           <<"e", "n", "t", "r", "e", "p", "r", "e", "n", "e", "u", "r">>,
           <<"b", "r", "a", "n", "d">>,
           <<"c", "a", "m", "p", "a", "i", "g", "n">>,
           <<"a", "n", "a", "l", "y", "t", "i", "c", "s">>,
           <<"m", "e", "t", "r", "i", "c", "s">> >>
    @@ "finance" :>   \* billionaire, millionaire, wealth, financial, investment, money, income, earn, accumulate, portfolio, stock, crypto, trading, passive income, financial independence, net worth, asset, capital, dividend, return, yield, rich, wealthy
        << <<"b", "i", "l", "l", "i", "o", "n", "a", "i", "r", "e">>,
           <<"m", "i", "l", "l", "i", "o", "n", "a", "i", "r", "e">>,
           <<"w", "e", "a", "l", "t", "h">>,
           <<"f", "i", "n", "a", "n", "c", "i", "a", "l">>,
           <<"i", "n", "v", "e", "s", "t", "m", "e", "n", "t">>,
           <<"m", "o", "n", "e", "y">>,
           <<"i", "n", "c", "o", "m", "e">>,
           <<"e", "a", "r", "n">>,
           <<"a", "c", "c", "u", "m", "u", "l", "a", "t", "e">>,
           <<"p", "o", "r", "t", "f", "o", "l", "i", "o">>,
           <<"s", "t", "o", "c", "k">>,
           <<"c", "r", "y", "p", "t", "o">>,
           <<"t", "r", "a", "d", "i", "n", "g">>,
           <<"p", "a", "s", "s", "i", "v", "e", " ", "i", "n", "c", "o", "m", "e">>,
           <<"f", "i", "n", "a", "n", "c", "i", "a", "l", " ", "i", "n", "d", "e", "p", "e", "n", "d", "e", "n", "c", "e">>,
           <<"n", "e", "t", " ", "w", "o", "r", "t", "h">>,
           <<"a", "s", "s", "e", "t">>,
           <<"c", "a", "p", "i", "t", "a", "l">>,
           <<"d", "i", "v", "i", "d", "e", "n", "d">>,
           <<"r", "e", "t", "u", "r", "n">>,
           <<"y", "i", "e", "l", "d">>,
           <<"r", "i", "c", "h">>,
           <<"w", "e", "a", "l", "t", "h", "y">> >>
    @@ "academic" :>   \* research, paper, study, analysis, theory, hypothesis, experiment, data, conclusion, literature, academic, education, learning, course, thesis, essay
        << <<"r", "e", "s", "e", "a", "r", "c", "h">>,
           <<"p", "a", "p", "e", "r">>,
           <<"s", "t", "u", "d", "y">>,
           <<"a", "n", "a", "l", "y", "s", "i", "s">>,
           <<"t", "h", "e", "o", "r", "y">>,
           <<"h", "y", "p", "o", "t", "h", "e", "s", "i", "s">>,
           <<"e", "x", "p", "e", "r", "i", "m", "e", "n", "t">>,
           <<"d", "a", "t", "a">>,
           <<"c", "o", "n", "c", "l", "u", "s", "i", "o", "n">>,
           <<"l", "i", "t", "e", "r", "a", "t", "u", "r", "e">>,
           <<"a", "c", "a", "d", "e", "m", "i", "c">>,
           <<"e", "d", "u", "c", "a", "t", "i", "o", "n">>,
           <<"l", "e", "a", "r", "n", "i", "n", "g">>,
           <<"c", "o", "u", "r", "s", "e">>,
           <<"t", "h", "e", "s", "i", "s">>,
           <<"e", "s", "s", "a", "y">> >>
    @@ "career" :>   \* job, resume, interview, career, promotion, salary, cover letter, linkedin, networking, professional, skill, experience, employer, recruiter, application, advancement, development
        << <<"j", "o", "b">>,
           <<"r", "e", "s", "u", "m", "e">>,
           <<"i", "n", "t", "e", "r", "v", "i", "e", "w">>,
           <<"c", "a", "r", "e", "e", "r">>,
           <<"p", "r", "o", "m", "o", "t", "i", "o", "n">>,
           <<"s", "a", "l", "a", "r", "y">>,
           <<"c", "o", "v", "e", "r", " ", "l", "e", "t", "t", "e", "r">>,
           <<"l", "i", "n", "k", "e", "d", "i", "n">>,
           <<"n", "e", "t", "w", "o", "r", "k", "i", "n", "g">>,
           <<"p", "r", "o", "f", "e", "s", "s", "i", "o", "n", "a", "l">>,
           <<"s", "k", "i", "l", "l">>,
           <<"e", "x", "p", "e", "r", "i", "e", "n", "c", "e">>,
           <<"e", "m", "p", "l", "o", "y", "e", "r">>,
           <<"r", "e", "c", "r", "u", "i", "t", "e", "r">>,
           <<"a", "p", "p", "l", "i", "c", "a", "t", "i", "o", "n">>,
           <<"a", "d", "v", "a", "n", "c", "e", "m", "e", "n", "t">>,
           <<"d", "e", "v", "e", "l", "o", "p", "m", "e", "n", "t">> >>
    @@ "hr" :>   \* hire, recruit, employee, staff, team, onboarding, candidate, job posting, hiring, recruitment, talent, personnel, hr, human resources, applicant, screening, hiring process
        << <<"h", "i", "r", "e">>,
           <<"r", "e", "c", "r", "u", "i", "t">>,
           <<"e", "m", "p", "l", "o", "y", "e", "e">>,
           <<"s", "t", "a", "f", "f">>,
           <<"t", "e", "a", "m">>,
           <<"o", "n", "b", "o", "a", "r", "d", "i", "n", "g">>,
           <<"c", "a", "n", "d", "i", "d", "a", "t", "e">>,
           <<"j", "o", "b", " ", "p", "o", "s", "t", "i", "n", "g">>,
           <<"h", "i", "r", "i", "n", "g">>,
           <<"r", "e", "c", "r", "u", "i", "t", "m", "e", "n", "t">>,
           <<"t", "a", "l", "e", "n", "t">>,
           <<"p", "e", "r", "s", "o", "n", "n", "e", "l">>,
           <<"h", "r">>,
           <<"h", "u", "m", "a", "n", " ", "r", "e", "s", "o", "u", "r", "c", "e", "s">>,
           <<"a", "p", "p", "l", "i", "c", "a", "n", "t">>,
           <<"s", "c", "r", "e", "e", "n", "i", "n", "g">>,
           <<"h", "i", "r", "i", "n", "g", " ", "p", "r", "o", "c", "e", "s", "s">> >>
    @@ "personal" :>   \* health, fitness, fit, wellness, diet, exercise, workout, gym, training, meditation, mental, family, relationship, travel, hobby, personal, life, goal, habit, self-improvement, wellbeing
        << <<"h", "e", "a", "l", "t", "h">>,
           <<"f", "i", "t", "n", "e", "s", "s">>,
           <<"f", "i", "t">>,
           <<"w", "e", "l", "l", "n", "e", "s", "s">>,
           <<"d", "i", "e", "t">>,
           <<"e", "x", "e", "r", "c", "i", "s", "e">>,
           <<"w", "o", "r", "k", "o", "u", "t">>,
           <<"g", "y", "m">>,
           <<"t", "r", "a", "i", "n", "i", "n", "g">>,
           <<"m", "e", "d", "i", "t", "a", "t", "i", "o", "n">>,
           <<"m", "e", "n", "t", "a", "l">>,
           <<"f", "a", "m", "i", "l", "y">>,
           <<"r", "e", "l", "a", "t", "i", "o", "n", "s", "h", "i", "p">>,
           <<"t", "r", "a", "v", "e", "l">>,
           <<"h", "o", "b", "b", "y">>,
           <<"p", "e", "r", "s", "o", "n", "a", "l">>,
           <<"l", "i", "f", "e">>,
           <<"g", "o", "a", "l">>,
           <<"h", "a", "b", "i", "t">>,
           <<"s", "e", "l", "f", "-", "i", "m", "p", "r", "o", "v", "e", "m", "e", "n", "t">>,
           <<"w", "e", "l", "l", "b", "e", "i", "n", "g">> >>
    @@ "fitness" :>   \* exercise, workout, gym, training, cardio, strength, running, cycling, yoga, pilates, stretching, weight loss, muscle, fitness goal, trainer, program, fit, athletic
        << <<"e", "x", "e", "r", "c", "i", "s", "e">>,
           <<"w", "o", "r", "k", "o", "u", "t">>,
           <<"g", "y", "m">>,
           <<"t", "r", "a", "i", "n", "i", "n", "g">>,
           <<"c", "a", "r", "d", "i", "o">>,
           <<"s", "t", "r", "e", "n", "g", "t", "h">>,
           <<"r", "u", "n", "n", "i", "n", "g">>,
           <<"c", "y", "c", "l", "i", "n", "g">>,
           <<"y", "o", "g", "a">>,
           <<"p", "i", "l", "a", "t", "e", "s">>,
           <<"s", "t", "r", "e", "t", "c", "h", "i", "n", "g">>,
           <<"w", "e", "i", "g", "h", "t", " ", "l", "o", "s", "s">>,
           <<"m", "u", "s", "c", "l", "e">>,
           <<"f", "i", "t", "n", "e", "s", "s", " ", "g", "o", "a", "l">>,
           <<"t", "r", "a", "i", "n", "e", "r">>,
           <<"p", "r", "o", "g", "r", "a", "m">>,
           <<"f", "i", "t">>,
           <<"a", "t", "h", "l", "e", "t", "i", "c">> >>
    @@ "health" :>   \* health, wellness, diet, nutrition, medical, doctor, disease, treatment, supplement, vitamin, sleep, stress, immune, preventive, wellbeing, healthy eating, nutrition plan
        << <<"h", "e", "a", "l", "t", "h">>,
           <<"w", "e", "l", "l", "n", "e", "s", "s">>,
           <<"d", "i", "e", "t">>,
           <<"n", "u", "t", "r", "i", "t", "i", "o", "n">>,
           <<"m", "e", "d", "i", "c", "a", "l">>,
           <<"d", "o", "c", "t", "o", "r">>,
           <<"d", "i", "s", "e", "a", "s", "e">>,
           <<"t", "r", "e", "a", "t", "m", "e", "n", "t">>,
           <<"s", "u", "p", "p", "l", "e", "m", "e", "n", "t">>,
           <<"v", "i", "t", "a", "m", "i", "n">>,
           <<"s", "l", "e", "e", "p">>,
           <<"s", "t", "r", "e", "s", "s">>,
           <<"i", "m", "m", "u", "n", "e">>,
           <<"p", "r", "e", "v", "e", "n", "t", "i", "v", "e">>,
           <<"w", "e", "l", "l", "b", "e", "i", "n", "g">>,
           <<"h", "e", "a", "l", "t", "h", "y", " ", "e", "a", "t", "i", "n", "g">>,
           <<"n", "u", "t", "r", "i", "t", "i", "o", "n", " ", "p", "l", "a", "n">> >>
    @@ "relationships" :>   \* relationship, dating, marriage, partner, spouse, family, friend, communication, conflict, love, dating advice, breakup, divorce, intimacy, commitment, romantic
        << <<"r", "e", "l", "a", "t", "i", "o", "n", "s", "h", "i", "p">>,
           <<"d", "a", "t", "i", "n", "g">>,
           <<"m", "a", "r", "r", "i", "a", "g", "e">>,
           <<"p", "a", "r", "t", "n", "e", "r">>,
           <<"s", "p", "o", "u", "s", "e">>,
           <<"f", "a", "m", "i", "l", "y">>,
           <<"f", "r", "i", "e", "n", "d">>,
           <<"c", "o", "m", "m", "u", "n", "i", "c", "a", "t", "i", "o", "n">>,
           <<"c", "o", "n", "f", "l", "i", "c", "t">>,
           <<"l", "o", "v", "e">>,
           <<"d", "a", "t", "i", "n", "g", " ", "a", "d", "v", "i", "c", "e">>,
           <<"b", "r", "e", "a", "k", "u", "p">>,
           <<"d", "i", "v", "o", "r", "c", "e">>,
           <<"i", "n", "t", "i", "m", "a", "c", "y">>,
           <<"c", "o", "m", "m", "i", "t", "m", "e", "n", "t">>,
           <<"r", "o", "m", "a", "n", "t", "i", "c">> >>
    @@ "hobbies" :>   \* hobby, interest, craft, art, music, gaming, sports, collecting, DIY, photography, painting, drawing, writing, reading, cooking, gardening, creative project
        << <<"h", "o", "b", "b", "y">>,
           <<"i", "n", "t", "e", "r", "e", "s", "t">>,
           <<"c", "r", "a", "f", "t">>,
           <<"a", "r", "t">>,
           <<"m", "u", "s", "i", "c">>,
           <<"g", "a", "m", "i", "n", "g">>,
           <<"s", "p", "o", "r", "t", "s">>,
           <<"c", "o", "l", "l", "e", "c", "t", "i", "n", "g">>,
           <<"D", "I", "Y">>,
           <<"p", "h", "o", "t", "o", "g", "r", "a", "p", "h", "y">>,
           <<"p", "a", "i", "n", "t", "i", "n", "g">>,
           <<"d", "r", "a", "w", "i", "n", "g">>,
           <<"w", "r", "i", "t", "i", "n", "g">>,
           <<"r", "e", "a", "d", "i", "n", "g">>,
           <<"c", "o", "o", "k", "i", "n", "g">>,
           <<"g", "a", "r", "d", "e", "n", "i", "n", "g">>,
           <<"c", "r", "e", "a", "t", "i", "v", "e", " ", "p", "r", "o", "j", "e", "c", "t">> >>
    @@ "mental_health" :>   \* mental health, anxiety, depression, stress, therapy, counseling, mindfulness, meditation, emotional, psychological, mental wellness, trauma, PTSD, bipolar, OCD, mental
        << <<"m", "e", "n", "t", "a", "l", " ", "h", "e", "a", "l", "t", "h">>,
           <<"a", "n", "x", "i", "e", "t", "y">>,
           <<"d", "e", "p", "r", "e", "s", "s", "i", "o", "n">>,
           <<"s", "t", "r", "e", "s", "s">>,
           <<"t", "h", "e", "r", "a", "p", "y">>,
           <<"c", "o", "u", "n", "s", "e", "l", "i", "n", "g">>,
           <<"m", "i", "n", "d", "f", "u", "l", "n", "e", "s", "s">>,
           <<"m", "e", "d", "i", "t", "a", "t", "i", "o", "n">>,
           <<"e", "m", "o", "t", "i", "o", "n", "a", "l">>,
           <<"p", "s", "y", "c", "h", "o", "l", "o", "g", "i", "c", "a", "l">>,
           <<"m", "e", "n", "t", "a", "l", " ", "w", "e", "l", "l", "n", "e", "s", "s">>,
           <<"t", "r", "a", "u", "m", "a">>,
           <<"P", "T", "S", "D">>,
           <<"b", "i", "p", "o", "l", "a", "r">>,
           <<"O", "C", "D">>,
           <<"m", "e", "n", "t", "a", "l">> >>
    @@ "personal_development" :>   \* personal development, self-improvement, goal setting, productivity, time management, habits, motivation, confidence, self-esteem, growth mindset, learning, self-help
        << <<"p", "e", "r", "s", "o", "n", "a", "l", " ", "d", "e", "v", "e", "l", "o", "p", "m", "e", "n", "t">>,
           <<"s", "e", "l", "f", "-", "i", "m", "p", "r", "o", "v", "e", "m", "e", "n", "t">>,
           <<"g", "o", "a", "l", " ", "s", "e", "t", "t", "i", "n", "g">>,
           <<"p", "r", "o", "d", "u", "c", "t", "i", "v", "i", "t", "y">>,
           <<"t", "i", "m", "e", " ", "m", "a", "n", "a", "g", "e", "m", "e", "n", "t">>,
           <<"h", "a", "b", "i", "t", "s">>,
           <<"m", "o", "t", "i", "v", "a", "t", "i", "o", "n">>,
           <<"c", "o", "n", "f", "i", "d", "e", "n", "c", "e">>,
           <<"s", "e", "l", "f", "-", "e", "s", "t", "e", "e", "m">>,
           <<"g", "r", "o", "w", "t", "h", " ", "m", "i", "n", "d", "s", "e", "t">>,
           <<"l", "e", "a", "r", "n", "i", "n", "g">>,
           <<"s", "e", "l", "f", "-", "h", "e", "l", "p">> >>
    @@ "education" :>   \* education, learning, study, student, school, university, course, training, certification, exam, homework, assignment, subject, teacher, tutor, degree
        << <<"e", "d", "u", "c", "a", "t", "i", "o", "n">>,
           <<"l", "e", "a", "r", "n", "i", "n", "g">>,
           <<"s", "t", "u", "d", "y">>,
           <<"s", "t", "u", "d", "e", "n", "t">>,
           <<"s", "c", "h", "o", "o", "l">>,
           <<"u", "n", "i", "v", "e", "r", "s", "i", "t", "y">>,
           <<"c", "o", "u", "r", "s", "e">>,
           <<"t", "r", "a", "i", "n", "i", "n", "g">>,
           <<"c", "e", "r", "t", "i", "f", "i", "c", "a", "t", "i", "o", "n">>,
           <<"e", "x", "a", "m">>,
           <<"h", "o", "m", "e", "w", "o", "r", "k">>,
           <<"a", "s", "s", "i", "g", "n", "m", "e", "n", "t">>,
           <<"s", "u", "b", "j", "e", "c", "t">>,
           <<"t", "e", "a", "c", "h", "e", "r">>,
           <<"t", "u", "t", "o", "r">>,
           <<"d", "e", "g", "r", "e", "e">> >>

\* weight of each profile, in tenths (1.2 is 12)
DOMAIN_KEYWORDS_weight ==
       "technical" :> 10
    @@ "creative" :> 10
    @@ "business" :> 10
    @@ "finance" :> 12
    @@ "academic" :> 10
    @@ "career" :> 10
    @@ "hr" :> 11
    @@ "personal" :> 10
    @@ "fitness" :> 12
    @@ "health" :> 12
    @@ "relationships" :> 11
    @@ "hobbies" :> 10
    @@ "mental_health" :> 13
    @@ "personal_development" :> 11
    @@ "education" :> 11
\* IEEE-754 double reached by adding the weight w/10 to 0 n times (scores[domain] += config.weight):
\* <<t, e>> is the double nearest to t/10 moved by e units in the last place
FloatAccum ==
       10 :> << <<10, 0>>, <<20, 0>>, <<30, 0>>, <<40, 0>>, <<50, 0>>, <<60, 0>>, <<70, 0>>, <<80, 0>>, <<90, 0>>, <<100, 0>>, <<110, 0>>, <<120, 0>>, <<130, 0>>, <<140, 0>>, <<150, 0>>, <<160, 0>>, <<170, 0>>, <<180, 0>>, <<190, 0>>, <<200, 0>>, <<210, 0>>, <<220, 0>>, <<230, 0>> >>
    @@ 11 :> << <<11, 0>>, <<22, 0>>, <<33, 1>>, <<44, 0>>, <<55, 0>>, <<66, 0>>, <<77, -1>>, <<88, -1>>, <<99, -1>>, <<110, -1>>, <<121, -1>>, <<132, -1>>, <<143, -2>>, <<154, -2>>, <<165, -1>>, <<176, -1>>, <<187, 0>>, <<198, 0>>, <<209, 1>>, <<220, 1>>, <<231, 1>>, <<242, 2>>, <<253, 2>> >>
    @@ 12 :> << <<12, 0>>, <<24, 0>>, <<36, -1>>, <<48, 0>>, <<60, 0>>, <<72, 0>>, <<84, 0>>, <<96, 0>>, <<108, -1>>, <<120, -1>>, <<132, -1>>, <<144, -2>>, <<156, -2>>, <<168, -1>>, <<180, -1>>, <<192, -1>>, <<204, -1>>, <<216, -2>>, <<228, -2>>, <<240, -2>>, <<252, -2>>, <<264, -2>>, <<276, -3>> >>
    @@ 13 :> << <<13, 0>>, <<26, 0>>, <<39, 1>>, <<52, 0>>, <<65, 0>>, <<78, 0>>, <<91, 0>>, <<104, 0>>, <<117, 1>>, <<130, 1>>, <<143, 1>>, <<156, 2>>, <<169, 1>>, <<182, 1>>, <<195, 1>>, <<208, 1>>, <<221, 1>>, <<234, 2>>, <<247, 2>>, <<260, 2>>, <<273, 2>>, <<286, 2>>, <<299, 3>> >>

\* a score before any keyword matched: scores[domain] = 0
FloatZero == <<0, 0>>

\* scores[domain] after n keywords of the profile matched
ScoreAfter(domain, n) ==
    IF n = 0 THEN FloatZero ELSE FloatAccum[DOMAIN_KEYWORDS_weight[domain]][n]

\* a > 0: the comparison forgets the running maximum
FloatGT_IgnoresMax(a, b) == a[1] > 0 \/ (a[1] = 0 /\ a[2] > 0)

\* a >= b: a later domain with an equal score replaces the earlier one
FloatGT_OrEqual(a, b) == a[1] > b[1] \/ (a[1] = b[1] /\ a[2] >= b[2])

\* a > b on doubles
FloatGT(a, b) == a[1] > b[1] \/ (a[1] = b[1] /\ a[2] > b[2])

\* the weight is added once per place where a keyword occurs
KeywordHits_PerOccurrence(lowerPrompt, domain) ==
    Cardinality({ip \in (1..Len(DOMAIN_KEYWORDS_keywords[domain])) \X (1..Len(lowerPrompt)) :
                    LET k == DOMAIN_KEYWORDS_keywords[domain][ip[1]]
                    IN  /\ ip[2] + Len(k) - 1 <= Len(lowerPrompt)
                        /\ SubSeq(lowerPrompt, ip[2], ip[2] + Len(k) - 1) = k})

\* the forEach over config.keywords: how often scores[domain] += config.weight ran
KeywordHits(lowerPrompt, domain) ==
    Cardinality({i \in 1..Len(DOMAIN_KEYWORDS_keywords[domain]) :
                    Includes(lowerPrompt, DOMAIN_KEYWORDS_keywords[domain][i])})

\* the scores object after both loops
ComputeScores(prompt) ==
    LET lowerPrompt == ToLowerCase(prompt)
    IN  [d \in {DomainOrder[i] : i \in 1..Len(DomainOrder)} |->
            ScoreAfter(d, KeywordHits(lowerPrompt, d))]

\* Object.entries(scores).forEach: <<maxScore, detectedDomain>> after the
\* entries from position i on were visited
RECURSIVE FindMax(_, _, _, _)
FindMax(scores, i, maxScore, detectedDomain) ==
    IF i > Len(DomainOrder) THEN <<maxScore, detectedDomain>>
    ELSE IF FloatGT(scores[DomainOrder[i]], maxScore)
         THEN FindMax(scores, i + 1, scores[DomainOrder[i]], DomainOrder[i])
         ELSE FindMax(scores, i + 1, maxScore, detectedDomain)

\* maxScore / 10 without Math.min
Confidence_Uncapped(maxScore) == maxScore[1]

\* parseFloat(Math.min(maxScore / 10, 1).toFixed(2)), in hundredths
Confidence(maxScore) == IF maxScore[1] >= 100 THEN 100 ELSE maxScore[1]

detectDomain(prompt) ==
    LET scores == ComputeScores(prompt)
        best   == FindMax(scores, 1, FloatZero, "general")
    IN  [domain |-> best[2], confidence |-> Confidence(best[1]), scores |-> scores]

\* fragments the classifier prompts are built from
ClassifyWords ==
    {
      \* Fix this Python function that sorts a list
      <<"F","i","x"," ","t","h","i","s"," ","P","y","t","h","o","n"," ","f","u","n","c","t","i","o","n"," ","t","h","a","t"," ","s","o","r","t","s"," ","a"," ","l","i","s","t">>,
      \* I want to write a romantic short story for adults
      <<"I"," ","w","a","n","t"," ","t","o"," ","w","r","i","t","e"," ","a"," ","r","o","m","a","n","t","i","c"," ","s","h","o","r","t"," ","s","t","o","r","y"," ","f","o","r"," ","a","d","u","l","t","s">>,
      \* xyz 
      <<"x","y","z"," ">>,
      \* learning 
      <<"l","e","a","r","n","i","n","g"," ">>,
      \* startup 
      <<"s","t","a","r","t","u","p"," ">>,
      \* DIY 
      <<"D","I","Y"," ">>,
      \* fitness 
      <<"f","i","t","n","e","s","s"," ">>,
      \* mental health 
      <<"m","e","n","t","a","l"," ","h","e","a","l","t","h"," ">>,
      \* stress 
      <<"s","t","r","e","s","s"," ">>,
      \* STORY 
      <<"S","T","O","R","Y"," ">>,
      \* code api sql git aws node react debug server docker 
      <<"c","o","d","e"," ","a","p","i"," ","s","q","l"," ","g","i","t"," ","a","w","s"," ","n","o","d","e"," ","r","e","a","c","t"," ","d","e","b","u","g"," ","s","e","r","v","e","r"," ","d","o","c","k","e","r"," ">>
    }

ClassifyPrompts == {Concat(ts) : ts \in SeqUpTo(ClassifyWords, MaxTokens)}

\* ------------------------------------------------------------------------
\* QUESTION GENERATION SERVICE
\* ------------------------------------------------------------------------
\* the catalog: own properties of DOMAIN_QUESTIONS
DOMAIN_QUESTIONS ==
       "finance" :> <<
        [id |-> "q1", text |-> "What is your primary financial goal?",
         answers |-> << [label |-> "Wealth accumulation", value |-> "wealth"],
                           [label |-> "Investment strategy", value |-> "investment"],
                           [label |-> "Financial independence", value |-> "independence"],
                           [label |-> "Passive income", value |-> "passive"],
                           [label |-> "Risk management", value |-> "risk"] >>],
        [id |-> "q2", text |-> "What is your investment experience level?",
         answers |-> << [label |-> "Beginner", value |-> "beginner"],
                           [label |-> "Intermediate", value |-> "intermediate"],
                           [label |-> "Advanced", value |-> "advanced"],
                           [label |-> "Expert", value |-> "expert"],
                           [label |-> "Not investing yet", value |-> "none"] >>],
        [id |-> "q3", text |-> "What financial areas interest you?",
         answers |-> << [label |-> "Stocks/Equities", value |-> "stocks"],
                           [label |-> "Cryptocurrency", value |-> "crypto"],
                           [label |-> "Real Estate", value |-> "realestate"],
                           [label |-> "Bonds/Fixed Income", value |-> "bonds"],
                           [label |-> "Diversified Portfolio", value |-> "diversified"] >>] >>
    @@ "technical" :> <<
        [id |-> "q1", text |-> "What programming language or technology are you working with?",
         answers |-> << [label |-> "Python", value |-> "python"],
                           [label |-> "JavaScript/Node.js", value |-> "javascript"],
                           [label |-> "Java", value |-> "java"],
                           [label |-> "C++", value |-> "cpp"],
                           [label |-> "Other", value |-> "other"] >>],
        [id |-> "q2", text |-> "What is your primary goal?",
         answers |-> << [label |-> "Optimize performance", value |-> "performance"],
                           [label |-> "Fix a bug", value |-> "bug"],
                           [label |-> "Learn/understand", value |-> "learn"],
                           [label |-> "Design/architecture", value |-> "design"],
                           [label |-> "Other", value |-> "other"] >>],
        [id |-> "q3", text |-> "What is your experience level?",
         answers |-> << [label |-> "Beginner", value |-> "beginner"],
                           [label |-> "Intermediate", value |-> "intermediate"],
                           [label |-> "Advanced", value |-> "advanced"],
                           [label |-> "Expert", value |-> "expert"] >>] >>
    @@ "creative" :> <<
        [id |-> "q1", text |-> "What type of creative content are you working on?",
         answers |-> << [label |-> "Story/Fiction", value |-> "story"],
                           [label |-> "Poetry", value |-> "poetry"],
                           [label |-> "Script/Dialogue", value |-> "script"],
                           [label |-> "Visual/Design", value |-> "visual"],
                           [label |-> "Music/Audio", value |-> "music"] >>],
        [id |-> "q2", text |-> "Who is your target audience?",
         answers |-> << [label |-> "Children", value |-> "children"],
                           [label |-> "Teenagers", value |-> "teens"],
                           [label |-> "Adults", value |-> "adults"],
                           [label |-> "Professionals", value |-> "professionals"],
                           [label |-> "General", value |-> "general"] >>],
        [id |-> "q3", text |-> "What tone or style do you prefer?",
         answers |-> << [label |-> "Serious/Dramatic", value |-> "serious"],
                           [label |-> "Humorous/Light", value |-> "humorous"],
                           [label |-> "Inspirational", value |-> "inspirational"],
                           [label |-> "Mysterious/Dark", value |-> "dark"],
                           [label |-> "Romantic", value |-> "romantic"] >>] >>
    @@ "business" :> <<
        [id |-> "q1", text |-> "What is your business focus?",
         answers |-> << [label |-> "Marketing/Sales", value |-> "marketing"],
                           [label |-> "Strategy/Planning", value |-> "strategy"],
                           [label |-> "Operations", value |-> "operations"],
                           [label |-> "Finance/Investment", value |-> "finance"],
                           [label |-> "Other", value |-> "other"] >>],
        [id |-> "q2", text |-> "What is your company stage?",
         answers |-> << [label |-> "Startup", value |-> "startup"],
                           [label |-> "Growth Stage", value |-> "growth"],
                           [label |-> "Established", value |-> "established"],
                           [label |-> "Enterprise", value |-> "enterprise"],
                           [label |-> "Non-profit", value |-> "nonprofit"] >>],
        [id |-> "q3", text |-> "What is your primary metric?",
         answers |-> << [label |-> "Revenue/Profit", value |-> "revenue"],
                           [label |-> "Customer Acquisition", value |-> "acquisition"],
                           [label |-> "Market Share", value |-> "market"],
                           [label |-> "Efficiency/Cost", value |-> "efficiency"],
                           [label |-> "Growth Rate", value |-> "growth"] >>] >>
    @@ "academic" :> <<
        [id |-> "q1", text |-> "What type of academic work are you doing?",
         answers |-> << [label |-> "Research Paper", value |-> "research"],
                           [label |-> "Thesis/Dissertation", value |-> "thesis"],
                           [label |-> "Essay/Assignment", value |-> "essay"],
                           [label |-> "Literature Review", value |-> "literature"],
                           [label |-> "Other", value |-> "other"] >>],
        [id |-> "q2", text |-> "What academic level?",
         answers |-> << [label |-> "Undergraduate", value |-> "undergrad"],
                           [label |-> "Graduate/Masters", value |-> "masters"],
                           [label |-> "PhD/Doctoral", value |-> "phd"],
                           [label |-> "Professional", value |-> "professional"],
                           [label |-> "Other", value |-> "other"] >>],
        [id |-> "q3", text |-> "What is your field of study?",
         answers |-> << [label |-> "STEM", value |-> "stem"],
                           [label |-> "Humanities", value |-> "humanities"],
                           [label |-> "Social Sciences", value |-> "social"],
                           [label |-> "Business/Economics", value |-> "business"],
                           [label |-> "Other", value |-> "other"] >>] >>
    @@ "career" :> <<
        [id |-> "q1", text |-> "What is your career goal?",
         answers |-> << [label |-> "Job Search", value |-> "job_search"],
                           [label |-> "Promotion/Growth", value |-> "promotion"],
                           [label |-> "Career Change", value |-> "change"],
                           [label |-> "Skill Development", value |-> "skills"],
                           [label |-> "Other", value |-> "other"] >>],
        [id |-> "q2", text |-> "What is your experience level?",
         answers |-> << [label |-> "Entry Level", value |-> "entry"],
                           [label |-> "Mid-Level", value |-> "mid"],
                           [label |-> "Senior", value |-> "senior"],
                           [label |-> "Executive", value |-> "executive"],
                           [label |-> "Other", value |-> "other"] >>],
        [id |-> "q3", text |-> "What industry are you in?",
         answers |-> << [label |-> "Technology", value |-> "tech"],
                           [label |-> "Finance", value |-> "finance"],
                           [label |-> "Healthcare", value |-> "healthcare"],
                           [label |-> "Education", value |-> "education"],
                           [label |-> "Other", value |-> "other"] >>] >>
    @@ "hr" :> <<
        [id |-> "q1", text |-> "What type of position are you hiring for?",
         answers |-> << [label |-> "Entry-level", value |-> "entry"],
                           [label |-> "Mid-level", value |-> "mid"],
                           [label |-> "Senior/Leadership", value |-> "senior"],
                           [label |-> "Executive", value |-> "executive"],
                           [label |-> "Specialized/Technical", value |-> "technical"] >>],
        [id |-> "q2", text |-> "What is your primary hiring challenge?",
         answers |-> << [label |-> "Finding qualified candidates", value |-> "qualified"],
                           [label |-> "Screening/Filtering", value |-> "screening"],
                           [label |-> "Interview process", value |-> "interview"],
                           [label |-> "Retention", value |-> "retention"],
                           [label |-> "Onboarding", value |-> "onboarding"] >>],
        [id |-> "q3", text |-> "What industry or field?",
         answers |-> << [label |-> "Technology", value |-> "tech"],
                           [label |-> "Finance", value |-> "finance"],
                           [label |-> "Healthcare", value |-> "healthcare"],
                           [label |-> "Retail/Customer Service", value |-> "retail"],
                           [label |-> "Other", value |-> "other"] >>] >>
    @@ "fitness" :> <<
        [id |-> "q1", text |-> "What type of fitness are you interested in?",
         answers |-> << [label |-> "Cardio", value |-> "cardio"],
                           [label |-> "Strength Training", value |-> "strength"],
                           [label |-> "Flexibility/Yoga", value |-> "flexibility"],
                           [label |-> "Sports", value |-> "sports"],
                           [label |-> "General Fitness", value |-> "general"] >>],
        [id |-> "q2", text |-> "What is your current fitness level?",
         answers |-> << [label |-> "Beginner", value |-> "beginner"],
                           [label |-> "Intermediate", value |-> "intermediate"],
                           [label |-> "Advanced", value |-> "advanced"],
                           [label |-> "Athlete", value |-> "athlete"],
                           [label |-> "Recovering from injury", value |-> "recovering"] >>],
        [id |-> "q3", text |-> "What is your main fitness goal?",
         answers |-> << [label |-> "Weight loss", value |-> "weight_loss"],
                           [label |-> "Muscle gain", value |-> "muscle_gain"],
                           [label |-> "Endurance", value |-> "endurance"],
                           [label |-> "Flexibility", value |-> "flexibility"],
                           [label |-> "Overall health", value |-> "health"] >>] >>
    @@ "health" :> <<
        [id |-> "q1", text |-> "What health area are you focused on?",
         answers |-> << [label |-> "Nutrition", value |-> "nutrition"],
                           [label |-> "Sleep", value |-> "sleep"],
                           [label |-> "Stress management", value |-> "stress"],
                           [label |-> "Disease prevention", value |-> "prevention"],
                           [label |-> "General wellness", value |-> "general"] >>],
        [id |-> "q2", text |-> "What is your health goal?",
         answers |-> << [label |-> "Weight management", value |-> "weight"],
                           [label |-> "Energy and vitality", value |-> "energy"],
                           [label |-> "Immunity", value |-> "immunity"],
                           [label |-> "Disease prevention", value |-> "prevention"],
                           [label |-> "Longevity", value |-> "longevity"] >>],
        [id |-> "q3", text |-> "Do you have specific health concerns?",
         answers |-> << [label |-> "Yes, chronic condition", value |-> "chronic"],
                           [label |-> "Yes, recent diagnosis", value |-> "recent"],
                           [label |-> "No, general wellness", value |-> "no"],
                           [label |-> "Preventive care", value |-> "preventive"],
                           [label |-> "Prefer not to say", value |-> "prefer_not"] >>] >>
    @@ "relationships" :> <<
        [id |-> "q1", text |-> "What type of relationship?",
         answers |-> << [label |-> "Romantic/Dating", value |-> "romantic"],
                           [label |-> "Marriage", value |-> "marriage"],
                           [label |-> "Family", value |-> "family"],
                           [label |-> "Friendship", value |-> "friendship"],
                           [label |-> "Professional", value |-> "professional"] >>],
        [id |-> "q2", text |-> "What is the main issue?",
         answers |-> << [label |-> "Communication", value |-> "communication"],
                           [label |-> "Conflict/Disagreement", value |-> "conflict"],
                           [label |-> "Intimacy", value |-> "intimacy"],
                           [label |-> "Trust/Commitment", value |-> "trust"],
                           [label |-> "Other", value |-> "other"] >>],
        [id |-> "q3", text |-> "What outcome do you want?",
         answers |-> << [label |-> "Improve relationship", value |-> "improve"],
                           [label |-> "End relationship", value |-> "end"],
                           [label |-> "Maintain status quo", value |-> "maintain"],
                           [label |-> "Deepen connection", value |-> "deepen"],
                           [label |-> "Clarify feelings", value |-> "clarify"] >>] >>
    @@ "hobbies" :> <<
        [id |-> "q1", text |-> "What type of hobby?",
         answers |-> << [label |-> "Creative (art, music, writing)", value |-> "creative"],
                           [label |-> "Active (sports, outdoor)", value |-> "active"],
                           [label |-> "Intellectual (reading, gaming)", value |-> "intellectual"],
                           [label |-> "Collecting", value |-> "collecting"],
                           [label |-> "DIY/Making", value |-> "diy"] >>],
        [id |-> "q2", text |-> "What is your experience level?",
         answers |-> << [label |-> "Beginner", value |-> "beginner"],
                           [label |-> "Intermediate", value |-> "intermediate"],
                           [label |-> "Advanced", value |-> "advanced"],
                           [label |-> "Expert", value |-> "expert"],
                           [label |-> "Just exploring", value |-> "exploring"] >>],
        [id |-> "q3", text |-> "What do you want to achieve?",
         answers |-> << [label |-> "Learn and improve", value |-> "learn"],
                           [label |-> "Share with others", value |-> "share"],
                           [label |-> "Monetize", value |-> "monetize"],
                           [label |-> "Relax and enjoy", value |-> "relax"],
                           [label |-> "Compete", value |-> "compete"] >>] >>
    @@ "mental_health" :> <<
        [id |-> "q1", text |-> "What is your main concern?",
         answers |-> << [label |-> "Anxiety", value |-> "anxiety"],
                           [label |-> "Depression", value |-> "depression"],
                           [label |-> "Stress", value |-> "stress"],
                           [label |-> "Trauma/PTSD", value |-> "trauma"],
                           [label |-> "Other", value |-> "other"] >>],
        [id |-> "q2", text |-> "Are you currently in treatment?",
         answers |-> << [label |-> "Yes, with therapist", value |-> "therapy"],
                           [label |-> "Yes, with medication", value |-> "medication"],
                           [label |-> "No, but considering", value |-> "considering"],
                           [label |-> "No, self-managing", value |-> "self"],
                           [label |-> "Prefer not to say", value |-> "prefer_not"] >>],
        [id |-> "q3", text |-> "What support are you looking for?",
         answers |-> << [label |-> "Self-help strategies", value |-> "self_help"],
                           [label |-> "Professional resources", value |-> "professional"],
                           [label |-> "Community support", value |-> "community"],
                           [label |-> "Crisis resources", value |-> "crisis"],
                           [label |-> "Information/Education", value |-> "education"] >>] >>
    @@ "personal_development" :> <<
        [id |-> "q1", text |-> "What area of development?",
         answers |-> << [label |-> "Productivity", value |-> "productivity"],
                           [label |-> "Confidence/Self-esteem", value |-> "confidence"],
                           [label |-> "Skills", value |-> "skills"],
                           [label |-> "Habits", value |-> "habits"],
                           [label |-> "Mindset", value |-> "mindset"] >>],
        [id |-> "q2", text |-> "What is your main goal?",
         answers |-> << [label |-> "Achieve specific goal", value |-> "achieve"],
                           [label |-> "Build new habit", value |-> "habit"],
                           [label |-> "Overcome challenge", value |-> "overcome"],
                           [label |-> "Learn new skill", value |-> "skill"],
                           [label |-> "General growth", value |-> "growth"] >>],
        [id |-> "q3", text |-> "What is your timeline?",
         answers |-> << [label |-> "Immediate (days)", value |-> "immediate"],
                           [label |-> "Short-term (weeks)", value |-> "short"],
                           [label |-> "Medium-term (months)", value |-> "medium"],
                           [label |-> "Long-term (year+)", value |-> "long"],
                           [label |-> "No specific timeline", value |-> "flexible"] >>] >>
    @@ "education" :> <<
        [id |-> "q1", text |-> "What education level?",
         answers |-> << [label |-> "K-12", value |-> "k12"],
                           [label |-> "College/University", value |-> "college"],
                           [label |-> "Graduate", value |-> "graduate"],
                           [label |-> "Professional/Certification", value |-> "professional"],
                           [label |-> "Self-study", value |-> "self"] >>],
        [id |-> "q2", text |-> "What subject area?",
         answers |-> << [label |-> "STEM", value |-> "stem"],
                           [label |-> "Humanities", value |-> "humanities"],
                           [label |-> "Business", value |-> "business"],
                           [label |-> "Arts", value |-> "arts"],
                           [label |-> "Other", value |-> "other"] >>],
        [id |-> "q3", text |-> "What is your goal?",
         answers |-> << [label |-> "Pass exam", value |-> "pass"],
                           [label |-> "Understand concept", value |-> "understand"],
                           [label |-> "Improve grades", value |-> "grades"],
                           [label |-> "Master skill", value |-> "master"],
                           [label |-> "General learning", value |-> "general"] >>] >>
    @@ "personal" :> <<
        [id |-> "q1", text |-> "What is your main focus?",
         answers |-> << [label |-> "Health/Fitness", value |-> "health"],
                           [label |-> "Mental Wellness", value |-> "wellness"],
                           [label |-> "Personal Development", value |-> "development"],
                           [label |-> "Relationships", value |-> "relationships"],
                           [label |-> "Hobbies/Interests", value |-> "hobbies"] >>],
        [id |-> "q2", text |-> "What is your current situation?",
         answers |-> << [label |-> "Just Starting", value |-> "starting"],
                           [label |-> "In Progress", value |-> "progress"],
                           [label |-> "Struggling", value |-> "struggling"],
                           [label |-> "Succeeding", value |-> "succeeding"],
                           [label |-> "Other", value |-> "other"] >>],
        [id |-> "q3", text |-> "What support do you need?",
         answers |-> << [label |-> "Motivation", value |-> "motivation"],
                           [label |-> "Guidance/Advice", value |-> "guidance"],
                           [label |-> "Resources/Tools", value |-> "resources"],
                           [label |-> "Accountability", value |-> "accountability"],
                           [label |-> "Other", value |-> "other"] >>] >>
    @@ "general" :> <<
        [id |-> "q1", text |-> "What is your main goal with this prompt?",
         answers |-> << [label |-> "Get specific information", value |-> "info"],
                           [label |-> "Generate creative content", value |-> "creative"],
                           [label |-> "Solve a problem", value |-> "problem"],
                           [label |-> "Learn something new", value |-> "learn"],
                           [label |-> "Other", value |-> "other"] >>],
        [id |-> "q2", text |-> "Who will use the response?",
         answers |-> << [label |-> "Just me", value |-> "personal"],
                           [label |-> "My team/group", value |-> "team"],
                           [label |-> "General audience", value |-> "audience"],
                           [label |-> "Professional use", value |-> "professional"],
                           [label |-> "Other", value |-> "other"] >>],
        [id |-> "q3", text |-> "What level of detail do you need?",
         answers |-> << [label |-> "Brief/concise", value |-> "brief"],
                           [label |-> "Moderate detail", value |-> "moderate"],
                           [label |-> "Comprehensive/detailed", value |-> "detailed"],
                           [label |-> "Very technical", value |-> "technical"],
                           [label |-> "Simple/beginner-friendly", value |-> "simple"] >>] >>

\* the JavaScript value undefined
Undefined == [t |-> "undefined"]

\* the JavaScript value null
Null == [t |-> "null"]

\* o has the own property f (o an object of the model, undefined or null)
Has(o, f) == o # Undefined /\ o # Null /\ f \in DOMAIN o

\* properties every object literal inherits from Object.prototype; all of
\* them are truthy and none is an array
ObjectPrototypeKeys ==
    {"constructor", "toString", "toLocaleString", "valueOf", "hasOwnProperty",
     "isPrototypeOf", "propertyIsEnumerable", "__proto__",
     "__defineGetter__", "__defineSetter__", "__lookupGetter__", "__lookupSetter__"}

\* DOMAIN_QUESTIONS[key]: own property, else inherited property, else undefined
LookupQuestions(key) ==
    IF key \in DOMAIN DOMAIN_QUESTIONS
    THEN [kind |-> "array", value |-> DOMAIN_QUESTIONS[key]]
    ELSE IF key \in ObjectPrototypeKeys
         THEN [kind |-> "inherited"]
         ELSE [kind |-> "undefined"]

\* a normal return / a thrown exception
Return(v) == [ok |-> TRUE, value |-> v]
Throw(e) == [ok |-> FALSE, error |-> e]

\* no value yet: the call or the response has not happened
NoResult == [none |-> TRUE]

\* DOMAIN_QUESTIONS[domain] || DOMAIN_QUESTIONS[general] || []
QuestionsOrFallback(domain) ==
    IF LookupQuestions(domain).kind # "undefined"
    THEN LookupQuestions(domain)
    ELSE IF LookupQuestions("general").kind # "undefined"
         THEN LookupQuestions("general")
         ELSE [kind |-> "array", value |-> <<>>]

\* questions.map(q => ({...q, answers: q.answers || []})); map is not a
\* function when questions is not an array
generateQuestions(domain) ==
    LET questions == QuestionsOrFallback(domain)
    IN  IF questions.kind = "array"
        THEN Return([i \in 1..Len(questions.value) |->
                        [id |-> questions.value[i].id,
                         text |-> questions.value[i].text,
                         answers |-> questions.value[i].answers]])
        ELSE Throw("TypeError")

\* the answers arrays of the catalog as objects: one per catalog key and
\* question index, holding what the literal holds
AnswersRefs == {<<d, i>> : d \in DOMAIN DOMAIN_QUESTIONS, i \in 1..3}
CatalogAnswersAtStart == [ref \in AnswersRefs |-> DOMAIN_QUESTIONS[ref[1]][ref[2]].answers]

\* the catalog key whose array DOMAIN_QUESTIONS[domain] || DOMAIN_QUESTIONS[general] is
CatalogKey(domain) == IF domain \in DOMAIN DOMAIN_QUESTIONS THEN domain ELSE "general"

\* generateQuestions as objects: map makes a new array, the spread makes a
\* new object per question, and answers: q.answers || [] is the array of the
\* catalog itself, since an array is truthy
generateQuestionsObjects(domain) ==
    LET questions == QuestionsOrFallback(domain)
    IN  IF questions.kind = "array"
        THEN Return([i \in 1..Len(questions.value) |->
                        [id |-> questions.value[i].id,
                         text |-> questions.value[i].text,
                         answers |-> <<CatalogKey(domain), i>>]])
        ELSE Throw("TypeError")

\* the content of a list of question objects: each answers array read
\* through its reference
Content(list, arrays) ==
    [i \in 1..Len(list) |->
        [id |-> list[i].id, text |-> list[i].text, answers |-> arrays[list[i].answers]]]

\* domains callers ask questions for
CallerDomains == {"finance", "general", "nonexistent_domain_xyz", "constructor"}

\* Array.prototype.includes
ArrayIncludes(arr, x) == \E i \in 1..Len(arr) : arr[i] = x

\* baseQuestions.filter(q => !context.questionsAsked.includes(q.text))
FilterAsked(baseQuestions, questionsAsked) ==
    LET Keep(q) == ~ArrayIncludes(questionsAsked, q.text)
    IN  SelectSeq(baseQuestions, Keep)

generateContextAwareQuestions(domain, context) ==
    LET baseQuestions == generateQuestions(domain)
    IN  IF ~baseQuestions.ok THEN baseQuestions
        ELSE IF context = Undefined \/ ~Has(context, "questionsAsked")
             THEN baseQuestions
             ELSE LET filteredQuestions ==
                          FilterAsked(baseQuestions.value, context.questionsAsked)
                  IN  IF Len(filteredQuestions) > 0
                      THEN Return(filteredQuestions)
                      ELSE baseQuestions

\* ------------------------------------------------------------------------
\* PROMPT SCORING FUNCTION
\* ------------------------------------------------------------------------
\* \s and the characters trim() strips, as far as the model's texts use them
WhiteSpace == {" ", "\t", "\n"}

\* [.!?]
SentenceEnd == {".", "!", "?"}

Digits == {"0","1","2","3","4","5","6","7","8","9"}

\* the backtick character, which a TLA+ string cannot hold
Backtick == "BACKTICK"

\* the character class of hasQuotes: double quote, single quote, backtick
QuoteChars == {"\"", "'", Backtick}

\* /goal|objective|want|need|aim|purpose/i
GoalPattern ==
    { <<"g","o","a","l">>,
      <<"o","b","j","e","c","t","i","v","e">>,
      <<"w","a","n","t">>,
      <<"n","e","e","d">>,
      <<"a","i","m">>,
      <<"p","u","r","p","o","s","e">> }

\* /because|since|for|to|in order to/i
ContextPattern ==
    { <<"b","e","c","a","u","s","e">>,
      <<"s","i","n","c","e">>,
      <<"f","o","r">>,
      <<"t","o">>,
      <<"i","n"," ","o","r","d","e","r"," ","t","o">> }

\* /without|except|only|must|should|cannot/i
ConstraintPattern ==
    { <<"w","i","t","h","o","u","t">>,
      <<"e","x","c","e","p","t">>,
      <<"o","n","l","y">>,
      <<"m","u","s","t">>,
      <<"s","h","o","u","l","d">>,
      <<"c","a","n","n","o","t">> }

\* /example|such as|like|for instance/i
ExamplePattern ==
    { <<"e","x","a","m","p","l","e">>,
      <<"s","u","c","h"," ","a","s">>,
      <<"l","i","k","e">>,
      <<"f","o","r"," ","i","n","s","t","a","n","c","e">> }

\* RegExp.prototype.test for a case-insensitive alternation of literals
TestAnyOf(pattern, text) == \E w \in pattern : Includes(ToLowerCase(text), w)

\* RegExp.prototype.test for a character class
TestClass(class, text) == \E i \in 1..Len(text) : text[i] \in class

\* String.prototype.split on a run of separator characters (/[...]+/): the
\* pieces before, between and after the maximal runs, empty pieces included
SplitRuns(s, Sep) ==
    LET n == Len(s)
        runStarts == {i \in 1..n : s[i] \in Sep /\ (i = 1 \/ s[i - 1] \notin Sep)}
        runEnds == {i \in 1..n : s[i] \in Sep /\ (i = n \/ s[i + 1] \notin Sep)}
        k == Cardinality(runStarts)
        startRank == [r \in runStarts |-> Cardinality({x \in runStarts : x < r})]
        endRank == [r \in runEnds |-> Cardinality({x \in runEnds : x < r})]
        startOf == [j \in 1..k |-> CHOOSE r \in runStarts : startRank[r] = j - 1]
        endOf == [j \in 1..k |-> CHOOSE r \in runEnds : endRank[r] = j - 1]
    IN  [j \in 1..(k + 1) |->
            SubSeq(s, IF j = 1 THEN 1 ELSE endOf[j - 1] + 1,
                      IF j = k + 1 THEN n ELSE startOf[j] - 1)]

\* String.prototype.trim
Trim(s) ==
    LET n == Len(s)
    IN  IF \A i \in 1..n : s[i] \in WhiteSpace THEN <<>>
        ELSE SubSeq(s,
                 CHOOSE i \in 1..n :
                     s[i] \notin WhiteSpace /\ \A j \in 1..(i - 1) : s[j] \in WhiteSpace,
                 CHOOSE i \in 1..n :
                     s[i] \notin WhiteSpace /\ \A j \in (i + 1)..n : s[j] \in WhiteSpace)

Min(a, b) == IF a < b THEN a ELSE b
Max(a, b) == IF a > b THEN a ELSE b

\* prompt.split(/[.!?]+/).filter(s => s.trim().length > 0)
Sentences(prompt) ==
    LET NonBlank(s) == Len(Trim(s)) > 0
    IN  SelectSeq(SplitRuns(prompt, SentenceEnd), NonBlank)

\* prompt.split(/\s+/).length
WordCount(prompt) == Len(SplitRuns(prompt, WhiteSpace))

\* the three increments of the "Clarity" block
ClarityScore(prompt) ==
    (IF TestAnyOf(GoalPattern, prompt) THEN 10 ELSE 0)
    + (IF TestAnyOf(ContextPattern, prompt) THEN 8 ELSE 0)
    + (IF TestAnyOf(ConstraintPattern, prompt) THEN 7 ELSE 0)

\* the sentence increment without its Math.min(10, ...)
StructureScore_Uncapped(prompt) ==
    LET n == Len(Sentences(prompt))
    IN  n * 3 + (IF Len(prompt) > 50 * Max(1, n) THEN 5 ELSE 0)

\* the two increments of the "Structure" block; avgLength > 50 with
\* avgLength = prompt.length / Math.max(1, sentences.length)
StructureScore(prompt) ==
    LET n == Len(Sentences(prompt))
    IN  Min(10, n * 3) + (IF Len(prompt) > 50 * Max(1, n) THEN 5 ELSE 0)

\* the word count without its Math.min(15, ...)
CompletenessScore_Uncapped(prompt) == WordCount(prompt)

\* the increment of the "Completeness" block
CompletenessScore(prompt) == Min(15, WordCount(prompt))

\* the three increments of the "Specificity" block
SpecificityScore(prompt) ==
    (IF TestClass(Digits, prompt) THEN 5 ELSE 0)
    + (IF TestClass(QuoteChars, prompt) THEN 5 ELSE 0)
    + (IF TestAnyOf(ExamplePattern, prompt) THEN 5 ELSE 0)

\* Math.min(100, Math.round(score)); every increment is an integer
calculatePromptScore(prompt) ==
    Min(100, ClarityScore(prompt) + StructureScore(prompt)
             + CompletenessScore(prompt) + SpecificityScore(prompt))

\* fragments the scored texts are built from
ScoreWords ==
    {
      \* I need help
      <<"I"," ","n","e","e","d"," ","h","e","l","p">>,
      \*  because I want to build an API that handles 1000 requests, for example with rate limiting
      <<" ","b","e","c","a","u","s","e"," ","I"," ","w","a","n","t"," ","t","o"," ","b","u","i","l","d"," ","a","n"," ","A","P","I"," ","t","h","a","t"," ","h","a","n","d","l","e","s"," ","1","0","0","0"," ","r","e","q","u","e","s","t","s",","," ","f","o","r"," ","e","x","a","m","p","l","e"," ","w","i","t","h"," ","r","a","t","e"," ","l","i","m","i","t","i","n","g">>,
      \*  It must only say <DQ>ok<DQ>. Really? Yes! 
      <<" ","I","t"," ","m","u","s","t"," ","o","n","l","y"," ","s","a","y"," ","\"","o","k","\"","."," ","R","e","a","l","l","y","?"," ","Y","e","s","!"," ">>,
      \* One. Two? Three! Four. 
      <<"O","n","e","."," ","T","w","o","?"," ","T","h","r","e","e","!"," ","F","o","u","r","."," ">>,
      \* a b c d e f g h i j k l m n o p
      <<"a"," ","b"," ","c"," ","d"," ","e"," ","f"," ","g"," ","h"," ","i"," ","j"," ","k"," ","l"," ","m"," ","n"," ","o"," ","p">>,
      \* Zq
      <<"Z","q">>,
      \*  
      <<" ">>,
      \* .
      <<".">>,
      \* <TAB>
      <<"\t">>
    }

ScoreTexts == {Concat(ts) : ts \in SeqUpTo(ScoreWords, MaxScoreTokens)}

\* domain arguments of the catalog lookups
QuestionDomains ==
    DOMAIN DOMAIN_QUESTIONS
    \cup {"nonexistent_domain_xyz", "undefined", "constructor", "toString", "__proto__"}

\* question texts a context may list as already asked
AskedTexts ==
    {"What is your main goal with this prompt?", "Who will use the response?",
     "What level of detail do you need?", "What is your experience level?",
     "What is your favourite colour?"}

\* context arguments of the question filter
QuestionContexts ==
    {Undefined, [conversationTopic |-> "topic"]}
    \cup {[questionsAsked |-> qa] : qa \in SeqUpTo(AskedTexts, MaxAsked)}

\* ------------------------------------------------------------------------
\* Values of request fields
\* ------------------------------------------------------------------------
\* a string value of a request field whose characters the code never looks at
Str(s) == [t |-> "string", v |-> s]

\* a string value of a request field as a sequence of characters
Text(s) == [t |-> "text", v |-> s]

\* a number value of a request field
Num(n) == [t |-> "number", v |-> n]

\* typeof v === "string"
IsString(v) == "t" \in DOMAIN v /\ v.t \in {"string", "text"}

\* !v for the values a request field takes in the model: undefined, null,
\* a string, a number or an object
Falsy(v) ==
    \/ v = Undefined
    \/ v = Null
    \/ ("t" \in DOMAIN v /\ v.t = "string" /\ v.v = "")
    \/ ("t" \in DOMAIN v /\ v.t = "text" /\ v.v = <<>>)
    \/ ("t" \in DOMAIN v /\ v.t = "number" /\ v.v = 0)

\* an object without properties
EmptyObject == [f \in {} |-> 0]

\* Object.keys(o).length
KeyCount(o) == Cardinality(DOMAIN o)

\* arr.slice(-n)
LastN(arr, n) == SubSeq(arr, Max(1, Len(arr) - n + 1), Len(arr))

\* ------------------------------------------------------------------------
\* CONVERSATIONAL MEMORY SERVICE and system prompt
\* ------------------------------------------------------------------------
\* the template text of the model is kept as named blocks; what the code
\* interpolates into a block is kept as the block's fields
EmptyBlock == [block |-> "empty"]

\* o.f || fallback, for a string property f
StringOr(o, f, fallback) == IF Has(o, f) /\ o[f] # "" THEN o[f] ELSE fallback

\* o.f && o.f.length > 0, for an array property f
NonEmptyArray(o, f) == Has(o, f) /\ Len(o[f]) > 0

Originals(prompts) == [i \in 1..Len(prompts) |-> prompts[i].original]

formatContextForSystemPrompt(context) ==
    IF Falsy(context) THEN EmptyBlock
    ELSE [block |-> "generic",
          lines |->
              (IF StringOr(context, "conversationTopic", "") # ""
               THEN <<[line |-> "topic", topic |-> context.conversationTopic]>>
               ELSE <<>>)
              \o (IF NonEmptyArray(context, "keyDetails")
                  THEN <<[line |-> "keyDetails", joined |-> context.keyDetails]>>
                  ELSE <<>>)
              \o (IF NonEmptyArray(context, "previousPrompts")
                  THEN <<[line |-> "previousPrompts",
                          prompts |-> Originals(LastN(context.previousPrompts, 3))]>>
                  ELSE <<>>)
              \o (IF NonEmptyArray(context, "questionsAsked")
                  THEN <<[line |-> "questionsAsked", joined |-> context.questionsAsked]>>
                  ELSE <<>>)]

\* domains with a guidance block in buildSystemPrompt
GuidanceDomains ==
    {"technical", "creative", "business", "academic", "career", "personal", "finance"}

\* the if / else-if chain on domain === ...
domainSpecificInstructions(domain) ==
    IF domain # Undefined /\ domain.v \in GuidanceDomains
    THEN [block |-> "guidance", domain |-> domain.v]
    ELSE EmptyBlock

\* refinementAnswers && Object.keys(refinementAnswers).length > 0
IsRefinement(refinementAnswers) ==
    ~Falsy(refinementAnswers) /\ KeyCount(refinementAnswers) > 0

\* context.previousPrompts && context.previousPrompts.length > 1
IsFollowUp(context) == Has(context, "previousPrompts") /\ Len(context.previousPrompts) > 1

\* the refinement block; context.previousPrompts.slice throws when the
\* property is missing
RefinementInstructions(context) ==
    IF Has(context, "previousPrompts")
    THEN Return([block |-> "refinement",
                 prompts |-> Originals(LastN(context.previousPrompts, 3))])
    ELSE Throw("TypeError")

\* the follow-up text lists only the last three previous prompts
FollowUpPrompt_LastThree(context) ==
    [kind |-> "followup",
     topic |-> StringOr(context, "conversationTopic", "various topics"),
     prompts |-> LastN(context.previousPrompts, 3)]

\* the text returned early for follow-ups
FollowUpPrompt(context) ==
    [kind |-> "followup",
     topic |-> StringOr(context, "conversationTopic", "various topics"),
     prompts |-> context.previousPrompts]

\* the text returned at the end of buildSystemPrompt
FullPrompt(domain, contextInstructions) ==
    [kind |-> "full",
     domainSpecificInstructions |-> domainSpecificInstructions(domain),
     contextInstructions |-> contextInstructions]

\* the logging loop over context.previousPrompts at the top of
\* buildSystemPrompt completes: p.original.substring throws for an entry
\* without original
PreviousPromptsLogged(context) ==
    (~Falsy(context) /\ Has(context, "previousPrompts")) =>
        \A i \in 1..Len(context.previousPrompts) :
            "original" \in DOMAIN context.previousPrompts[i]

\* the follow-up test comes before the refinement test
buildSystemPrompt_FollowUpFirst(domain, context, refinementAnswers) ==
    IF ~PreviousPromptsLogged(context) THEN Throw("TypeError")
    ELSE IF Falsy(context) THEN Return(FullPrompt(domain, EmptyBlock))
    ELSE IF IsFollowUp(context) THEN Return(FollowUpPrompt(context))
    ELSE IF IsRefinement(refinementAnswers)
         THEN IF RefinementInstructions(context).ok
              THEN Return(FullPrompt(domain, RefinementInstructions(context).value))
              ELSE RefinementInstructions(context)
         ELSE Return(FullPrompt(domain, formatContextForSystemPrompt(context)))

buildSystemPrompt(domain, context, refinementAnswers) ==
    IF ~PreviousPromptsLogged(context) THEN Throw("TypeError")
    ELSE IF Falsy(context) THEN Return(FullPrompt(domain, EmptyBlock))
    ELSE IF IsRefinement(refinementAnswers)
         THEN IF RefinementInstructions(context).ok
              THEN Return(FullPrompt(domain, RefinementInstructions(context).value))
              ELSE RefinementInstructions(context)
         ELSE IF IsFollowUp(context) THEN Return(FollowUpPrompt(context))
         ELSE Return(FullPrompt(domain, formatContextForSystemPrompt(context)))

\* buildUserMessage
buildUserMessage(prompt, context) ==
    IF ~Falsy(context) /\ NonEmptyArray(context, "previousPrompts")
    THEN [prompt |-> prompt,
          context |-> [number |-> Len(context.previousPrompts) + 1,
                       topic |-> StringOr(context, "conversationTopic", "various topics"),
                       prompts |-> Originals(context.previousPrompts)]]
    ELSE [prompt |-> prompt, context |-> EmptyBlock]

\* entries of context.previousPrompts; the last one has no original
PreviousPromptEntries ==
    { [original |-> "p1", domain |-> "technical"],
      [original |-> "p2", domain |-> "general"],
      [domain |-> "general"] }

\* the objects that have any of the optional properties of a context
OptionalProperty(name, values) == {EmptyObject} \cup {name :> v : v \in values}

AssembleContexts ==
    {Undefined}
    \cup { a @@ b @@ c @@ d :
             a \in OptionalProperty("conversationTopic", {"topic"}),
             b \in OptionalProperty("keyDetails", {<<"k1", "k2">>}),
             c \in OptionalProperty("previousPrompts", SeqUpTo(PreviousPromptEntries, MaxPrevious)),
             d \in OptionalProperty("questionsAsked", {<<"What is your goal?">>}) }

AssembleDomains ==
    {Undefined} \cup {Str(d) : d \in GuidanceDomains \cup {"hr", "general"}}

RefinementAnswerValues == {Undefined, EmptyObject, [q1 |-> "a"]}

\* ------------------------------------------------------------------------
\* POST /api/improve-prompt
\* ------------------------------------------------------------------------
\* !prompt || typeof prompt !== "string"
PromptMissingOrNotString(prompt) == Falsy(prompt) \/ ~IsString(prompt)

\* prompt.trim().length === 0
PromptBlank(prompt) == Len(Trim(prompt.v)) = 0

\* only a missing platform is rejected
PlatformRejected_OnlyMissing(platform) == Falsy(platform)

\* !platform || !["chatgpt", "claude"].includes(platform)
PlatformRejected(platform) ==
    Falsy(platform) \/ platform \notin {Str("chatgpt"), Str("claude")}

\* context?.context || context
EffectiveContext(context) ==
    IF Has(context, "context") /\ ~Falsy(context.context) THEN context.context ELSE context

\* the property key a domain value is converted to
PropertyKey(domain) == IF domain = Undefined THEN "undefined" ELSE domain.v

\* the substrings the catch block looks for in error.message
TimeoutWord == <<"t","i","m","e","o","u","t">>
NetworkWord == <<"n","e","t","w","o","r","k">>

\* errors thrown inside the handler: status 0 stands for no status property
RuntimeErrors ==
    [TypeError |-> [status |-> 0, message |-> <<"i","s"," ","n","o","t"," ","a"," ","f","u","n","c","t","i","o","n"," ","o","r"," ","c","a","n","n","o","t"," ","r","e","a","d"," ","p","r","o","p","e","r","t","i","e","s"," ","o","f"," ","u","n","d","e","f","i","n","e","d">>],
     ReferenceError |-> [status |-> 0, message |-> <<"s","c","o","r","e"," ","i","s"," ","n","o","t"," ","d","e","f","i","n","e","d">>],
     InvalidResponse |-> [status |-> 0, message |-> <<"I","n","v","a","l","i","d"," ","r","e","s","p","o","n","s","e"," ","f","r","o","m"," ","O","p","e","n","A","I"," ","A","P","I">>]]

\* an HTTP response
Response(status, body) == [status |-> status, body |-> body]

ErrorBody(message) == [success |-> FALSE, error |-> message]

\* the catch block of the handler
CatchResponse(error) ==
    IF error.status = 401
    THEN Response(401, ErrorBody("Authentication error with OpenAI API"))
    ELSE IF error.status = 429
    THEN Response(429, ErrorBody("Rate limited by OpenAI API. Please try again later."))
    ELSE IF error.message # <<>> /\ Includes(error.message, TimeoutWord)
    THEN Response(504, ErrorBody("Request timed out. Please try again."))
    ELSE IF error.message # <<>> /\ Includes(error.message, NetworkWord)
    THEN Response(503, ErrorBody("Network error. Please try again later."))
    ELSE Response(500, ErrorBody("Failed to improve prompt. Please try again."))

\* identifiers declared in the handler and at the top level of the file
ImproveHandlerScope ==
    {"req", "res", "prompt", "platform", "domain", "context", "refinementAnswers",
     "systemPrompt", "response", "improvedPrompt", "scoreBefore", "scoreAfter",
     "scoreImprovement", "contextAwareQuestions", "responseData", "error",
     "express", "cors", "rateLimit", "OpenAI", "app", "PORT", "NODE_ENV", "corsOptions",
     "limiter", "openai", "contextStore", "ContextStorage", "storage", "DOMAIN_KEYWORDS",
     "detectDomain", "DOMAIN_QUESTIONS", "generateQuestions", "calculatePromptScore",
     "formatContextForSystemPrompt", "generateContextAwareQuestions", "buildUserMessage",
     "buildSystemPrompt"}

\* reading an identifier: a ReferenceError when nothing declares it
ReadIdentifier(name) ==
    IF name \in ImproveHandlerScope THEN Return(name) ELSE Throw("ReferenceError")

\* the properties of responseData that res.json keeps: a property whose
\* value is undefined is left out
JsonProperty(name, value) == IF value = Undefined THEN EmptyObject ELSE name :> value

\* !!context && context.previousPrompts && context.previousPrompts.length > 0
ContextAwareValue(context) ==
    IF Falsy(context) THEN [t |-> "boolean", v |-> FALSE]
    ELSE IF ~Has(context, "previousPrompts") THEN Undefined
    ELSE [t |-> "boolean", v |-> Len(context.previousPrompts) > 0]

\* refinementAnswers && Object.keys(refinementAnswers).length > 0
IsRefinementValue(refinementAnswers) ==
    IF Falsy(refinementAnswers) THEN refinementAnswers
    ELSE [t |-> "boolean", v |-> KeyCount(refinementAnswers) > 0]

\* responseData as sent by res.json(responseData)
SuccessResponse(r, improvedPrompt, questions, now) ==
    Response(200,
        [success |-> TRUE,
         improved |-> improvedPrompt,
         score |-> [before |-> calculatePromptScore(r.prompt.v),
                    after |-> calculatePromptScore(improvedPrompt),
                    improvement |-> calculatePromptScore(improvedPrompt)
                                    - calculatePromptScore(r.prompt.v)],
         timestamp |-> now,
         questions |-> questions]
        @@ JsonProperty("contextAware", ContextAwareValue(r.context))
        @@ JsonProperty("isRefinement", IsRefinementValue(r.refinementAnswers))
        @@ (IF ~Falsy(r.context) /\ Has(r.context, "previousPrompts")
            THEN "contextUsed" :>
                     [promptCount |-> Len(r.context.previousPrompts),
                      conversationTopic |-> StringOr(r.context, "conversationTopic", "unknown")]
            ELSE EmptyObject)
        @@ (IF IsRefinement(r.refinementAnswers)
            THEN "refinementApplied" :> TRUE
            ELSE EmptyObject))

\* the handler from the completion text on: trim, length check, scores,
\* questions, the success log (which reads score) and the response
CompletionResponse(r, content, now) ==
    LET improvedPrompt == Trim(content)
        contextAwareQuestions ==
            generateContextAwareQuestions(PropertyKey(r.domain), r.context)
    IN  IF Len(improvedPrompt) < 5
        THEN Response(500, ErrorBody("Generated prompt is too short"))
        ELSE IF ~contextAwareQuestions.ok
        THEN CatchResponse(RuntimeErrors[contextAwareQuestions.error])
        ELSE IF ~ReadIdentifier("score").ok
        THEN CatchResponse(RuntimeErrors[ReadIdentifier("score").error])
        ELSE SuccessResponse(r, improvedPrompt, contextAwareQuestions.value, now)

\* the handler after the await, for each thing the gateway can do
GatewayResponse(r, outcome, now) ==
    IF outcome.kind = "error" THEN CatchResponse(outcome.error)
    ELSE IF outcome.kind = "nochoices" THEN CatchResponse(RuntimeErrors.InvalidResponse)
    ELSE IF outcome.kind = "nullcontent" THEN CatchResponse(RuntimeErrors.TypeError)
    ELSE CompletionResponse(r, outcome.content, now)

\* the v1.0 server: the input checks of its improve-prompt handler, NoResult
\* when the request passes them
improvePromptV1_Validation(r) ==
    IF Falsy(r.prompt) \/ ~IsString(r.prompt)
    THEN Response(400, ErrorBody("Invalid prompt: must be a non-empty string"))
    ELSE IF Len(Trim(r.prompt.v)) = 0
    THEN Response(400, ErrorBody("Prompt cannot be empty"))
    ELSE IF Falsy(r.platform) \/ r.platform \notin {Str("chatgpt"), Str("claude")}
    THEN Response(400, ErrorBody("Invalid platform: must be 'chatgpt' or 'claude'"))
    ELSE NoResult

\* the v1.0 server: the catch block of its improve-prompt handler
improvePromptV1_Catch(error) ==
    IF error.status = 401
    THEN Response(401, ErrorBody("Authentication error with OpenAI API"))
    ELSE IF error.status = 429
    THEN Response(429, ErrorBody("Rate limited by OpenAI API. Please try again later."))
    ELSE IF error.message # <<>> /\ Includes(error.message, TimeoutWord)
    THEN Response(504, ErrorBody("Request timed out. Please try again."))
    ELSE IF error.message # <<>> /\ Includes(error.message, NetworkWord)
    THEN Response(503, ErrorBody("Network error. Please try again later."))
    ELSE Response(500, ErrorBody("Failed to improve prompt. Please try again."))

\* the v1.0 server: its improve-prompt handler after the await
improvePromptV1_Completion(outcome, now) ==
    IF outcome.kind = "error" THEN improvePromptV1_Catch(outcome.error)
    ELSE IF outcome.kind = "nochoices" THEN improvePromptV1_Catch(RuntimeErrors.InvalidResponse)
    ELSE IF outcome.kind = "nullcontent" THEN improvePromptV1_Catch(RuntimeErrors.TypeError)
    ELSE IF Len(Trim(outcome.content)) < 5
    THEN Response(500, ErrorBody("Generated prompt is too short"))
    ELSE Response(200, [success |-> TRUE, improved |-> Trim(outcome.content),
                        timestamp |-> now])

\* prompts of the improve requests
PromptNeedHelp == <<"I"," ","n","e","e","d"," ","h","e","l","p">>
PromptStory == <<"I"," ","w","a","n","t"," ","t","o"," ","w","r","i","t","e"," ","a"," ","r","o","m","a","n","t","i","c"," ","s","h","o","r","t"," ","s","t","o","r","y"," ","f","o","r"," ","a","d","u","l","t","s">>

ImprovePrompts ==
    {Undefined, Num(42), Text(<<>>), Text(<<" ", " ">>), Text(PromptNeedHelp), Text(PromptStory)}

ImprovePlatforms == {Undefined, Str("chatgpt"), Str("claude"), Str("discord")}

ImproveDomains == {Undefined, Str("technical"), Str("constructor")}

ImproveContexts ==
    LET one == <<[original |-> "p1", domain |-> "technical"]>>
        two == <<[original |-> "p1", domain |-> "technical"],
                 [original |-> "p2", domain |-> "general"]>>
    IN  { Undefined,
          [conversationTopic |-> "topic"],
          [previousPrompts |-> one],
          [conversationTopic |-> "topic", previousPrompts |-> two,
           questionsAsked |-> <<"What is your main goal with this prompt?">>],
          [context |-> [conversationTopic |-> "topic", previousPrompts |-> two]] }

ImproveRequests ==
    [prompt : ImprovePrompts, platform : ImprovePlatforms, domain : ImproveDomains,
     context : ImproveContexts, refinementAnswers : RefinementAnswerValues]

\* completion texts the gateway returns
CompletionTexts ==
    { <<"o","k">>,
      <<" "," ","h","i"," "," "," ">>,
      <<" ","F","i","x","e","d"," ">>,
      <<"G","o","a","l",":"," ","w","r","i","t","e"," ","a"," ","s","t","o","r","y","."," ","C","o","n","t","e","x","t",":"," ","f","o","r"," ","a","d","u","l","t","s","."," ","I","t"," ","m","u","s","t"," ","b","e"," ","5","0","0"," ","w","o","r","d","s",","," ","f","o","r"," ","e","x","a","m","p","l","e"," ","'","r","o","m","a","n","c","e","'",".">> }

\* errors the completion gateway call rejects with, each with what happened
\* at the gateway (cause); status 0 stands for no status property. Errors of
\* an HTTP answer carry its status, errors of the connection carry none, and
\* the message is whatever the client library words it as
GatewayErrors ==
    { [cause |-> "auth", status |-> 401,
       message |-> <<"I","n","c","o","r","r","e","c","t"," ","A","P","I"," ","k","e","y"," ","p","r","o","v","i","d","e","d">>],
      [cause |-> "throttled", status |-> 429,
       message |-> <<"R","a","t","e"," ","l","i","m","i","t"," ","r","e","a","c","h","e","d">>],
      [cause |-> "timeout", status |-> 0,
       message |-> <<"R","e","q","u","e","s","t"," ","t","i","m","e","o","u","t">>],
      [cause |-> "timeout", status |-> 0,
       message |-> <<"R","e","q","u","e","s","t"," ","t","i","m","e","d"," ","o","u","t",".">>],
      [cause |-> "network", status |-> 0,
       message |-> <<"n","e","t","w","o","r","k"," ","e","r","r","o","r">>],
      [cause |-> "network", status |-> 0,
       message |-> <<"C","o","n","n","e","c","t","i","o","n"," ","e","r","r","o","r",".">>],
      [cause |-> "other", status |-> 500,
       message |-> <<"T","h","e"," ","s","e","r","v","e","r"," ","h","a","d"," ","a","n"," ","e","r","r","o","r">>] }

\* what the completion gateway can do with a call
GatewayOutcomes ==
    {[kind |-> "content", content |-> c] : c \in CompletionTexts}
    \cup {[kind |-> "nochoices"], [kind |-> "nullcontent"]}
    \cup {[kind |-> "error", error |-> e] : e \in GatewayErrors}

\* ------------------------------------------------------------------------
\* STORAGE ABSTRACTION LAYER
\* ------------------------------------------------------------------------
\* { ...context, savedAt: new Date().toISOString() }
SpreadWithSavedAt(context, now) ==
    [f \in (DOMAIN context) \cup {"savedAt"} |->
        IF f = "savedAt" THEN now ELSE context[f]]

\* the entry is merged into the value stored before instead of replacing it
saveContext_MergesOld(store, conversationId, context, now) ==
    LET old == IF conversationId \in DOMAIN store THEN store[conversationId] ELSE << >>
        new == SpreadWithSavedAt(context, now)
    IN  [k \in (DOMAIN store) \cup {conversationId} |->
            IF k = conversationId
            THEN [f \in (DOMAIN old) \cup (DOMAIN new) |->
                     IF f \in DOMAIN new THEN new[f] ELSE old[f]]
            ELSE store[k]]

\* ContextStorage.saveContext: contextStore.set(conversationId, {...})
saveContext(store, conversationId, context, now) ==
    [k \in (DOMAIN store) \cup {conversationId} |->
        IF k = conversationId THEN SpreadWithSavedAt(context, now) ELSE store[k]]

\* ContextStorage.getContext: contextStore.get(conversationId) || null
getContext(store, conversationId) ==
    IF conversationId \in DOMAIN store THEN store[conversationId] ELSE Null

\* the entry stays in the map
deleteContext_KeepsEntry(store, conversationId) == store

\* ContextStorage.deleteContext: contextStore.delete(conversationId)
deleteContext(store, conversationId) ==
    [k \in (DOMAIN store) \ {conversationId} |-> store[k]]

\* conversation ids of the requests
ConversationIds == {"c1", "c2"}

\* context objects of the save requests
StoredContexts ==
    { [conversationTopic |-> "A", keyDetails |-> <<"k1">>],
      [conversationTopic |-> "B"],
      [keyDetails |-> <<"k2">>, savedAt |-> 0] }

\* slots for context requests that are in flight together
Slots == 1..MaxInFlight

\* the context requests that are in flight together: saves on c1 whose
\* contexts differ in their properties, a save on c2, a save without
\* context, and gets on both ids
ConcurrentRequests ==
    << [op |-> "save", id |-> "c1", context |-> [conversationTopic |-> "A", keyDetails |-> <<"k1">>]],
       [op |-> "save", id |-> "c1", context |-> [conversationTopic |-> "B", questionsAsked |-> <<"q">>]],
       [op |-> "save", id |-> "c2", context |-> [conversationTopic |-> "A", keyDetails |-> <<"k1">>]],
       [op |-> "save", id |-> "c1", context |-> Undefined],
       [op |-> "get", id |-> "c1", context |-> Undefined],
       [op |-> "get", id |-> "c2", context |-> Undefined] >>

\* ------------------------------------------------------------------------
\* Middleware
\* ------------------------------------------------------------------------
\* clients as the rate limiter tells them apart (req.ip)
ClientIps == {"ip1"}

\* rateLimit({ max: 10 }): requests a client may make in one window
RateLimitMax == 10

\* String.prototype.startsWith
StartsWith(s, prefix) ==
    Len(s) >= Len(prefix) /\ SubSeq(s, 1, Len(prefix)) = prefix

ChromeExtensionScheme == <<"c","h","r","o","m","e","-","e","x","t","e","n","s","i","o","n",":","/","/">>

\* allowedOrigins of corsOptions
AllowedOrigins ==
    { <<"h","t","t","p",":","/","/","l","o","c","a","l","h","o","s","t",":","3","0","0","0">>,
      <<"h","t","t","p",":","/","/","l","o","c","a","l","h","o","s","t",":","5","1","7","3">>,
      <<"h","t","t","p","s",":","/","/","c","h","a","t","g","p","t",".","c","o","m">>,
      <<"h","t","t","p","s",":","/","/","w","w","w",".","c","h","a","t","g","p","t",".","c","o","m">>,
      <<"h","t","t","p","s",":","/","/","c","l","a","u","d","e",".","a","i">>,
      <<"h","t","t","p","s",":","/","/","w","w","w",".","c","l","a","u","d","e",".","a","i">> }

\* corsOptions.origin: callback(null, true) or callback(new Error(...))
CorsAllows(origin) ==
    \/ Falsy(origin)
    \/ StartsWith(origin.v, ChromeExtensionScheme)
    \/ origin.v \in AllowedOrigins

\* o.f of an object that may lack the property
Field(o, f) == IF f \in DOMAIN o THEN o[f] ELSE Undefined

\* the path is mounted under /api/
UnderApi(path) == Len(path) >= 1 /\ path[1] = "api"

\* !prompt || typeof prompt !== "string" || prompt.trim().length === 0
PromptInvalid(prompt) ==
    Falsy(prompt) \/ ~IsString(prompt) \/ Len(Trim(prompt.v)) = 0

\* handler of POST /api/detect-domain: the response and the functions called
detectDomainEndpoint(body) ==
    LET prompt == Field(body, "prompt")
    IN  IF PromptInvalid(prompt)
        THEN [resp |-> Response(400, ErrorBody("Invalid prompt: must be a non-empty string")),
              calls |-> {}]
        ELSE [resp |-> Response(200, detectDomain(prompt.v) @@ [success |-> TRUE]),
              calls |-> {"detectDomain"}]

\* handler of POST /api/generate-questions
generateQuestionsEndpoint(body) ==
    LET prompt == Field(body, "prompt")
        domain == Field(body, "domain")
    IN  IF PromptInvalid(prompt)
        THEN [resp |-> Response(400, ErrorBody("Invalid prompt: must be a non-empty string")),
              calls |-> {}]
        ELSE IF Falsy(domain)
        THEN [resp |-> Response(400, ErrorBody("Domain is required")), calls |-> {}]
        ELSE LET questions == generateQuestions(PropertyKey(domain))
             IN  IF questions.ok
                 THEN [resp |-> Response(200, [success |-> TRUE, questions |-> questions.value]),
                       calls |-> {"generateQuestions"}]
                 ELSE [resp |-> Response(500, ErrorBody("Failed to generate questions")),
                       calls |-> {"generateQuestions"}]

\* origins of the requests: none, an allowed site, an extension, another site
RequestOrigins ==
    {Undefined, Text(<<"h","t","t","p","s",":","/","/","c","h","a","t","g","p","t",".","c","o","m">>),
     Text(<<"c","h","r","o","m","e","-","e","x","t","e","n","s","i","o","n",":","/","/","a","b","c","d","e","f">>),
     Text(<<"h","t","t","p","s",":","/","/","e","v","i","l",".","e","x","a","m","p","l","e">>)}

\* an HTTP request: path as its segments, parse tells whether the body is
\* JSON that express.json can parse
Request(method, path, origin, parse, body) ==
    [ip |-> "ip1", method |-> method, path |-> path, origin |-> origin,
     parse |-> parse, body |-> body]

DetectDomainBodies ==
    {EmptyObject}
    \cup {[prompt |-> q] :
             q \in {Num(42), Text(<<>>), Text(<<" ", " ">>), Text(PromptNeedHelp), Text(PromptStory)}}

GenerateQuestionsBodies ==
    { a @@ b :
        a \in OptionalProperty("prompt", {Text(<<" ", " ">>), Text(PromptNeedHelp)}),
        b \in OptionalProperty("domain", {Str(""), Str("technical"), Str("nonexistent_domain_xyz"),
                                          Str("constructor")}) }

ContextBodies ==
    { a @@ b :
        a \in OptionalProperty("conversationId", {Str("c1")}),
        b \in OptionalProperty("context", {[conversationTopic |-> "topic"]}) }

ImproveBodies ==
    { EmptyObject,
      [prompt |-> Text(PromptNeedHelp), platform |-> Str("discord")],
      [prompt |-> Text(PromptNeedHelp), platform |-> Str("chatgpt")],
      [prompt |-> Text(PromptNeedHelp), platform |-> Str("chatgpt"),
       conversationId |-> Str("c1")] }

\* the requests sent to the server
ServerRequests ==
    {Request("GET", <<"health">>, Undefined, "ok", EmptyObject)}
    \cup {Request("POST", <<"api", "detect-domain">>, Undefined, "ok", b) : b \in DetectDomainBodies}
    \cup {Request("POST", <<"api", "detect-domain">>, o, "ok", [prompt |-> Text(PromptNeedHelp)]) :
             o \in RequestOrigins}
    \cup {Request("POST", <<"api", "detect-domain">>, Undefined, "error", EmptyObject)}
    \cup {Request("POST", <<"api", "generate-questions">>, Undefined, "ok", b) :
             b \in GenerateQuestionsBodies}
    \cup {Request("POST", <<"api", "context">>, Undefined, "ok", b) : b \in ContextBodies}
    \cup {Request(md, <<"api", "context", id>>, Undefined, "ok", EmptyObject) :
             md \in {"GET", "DELETE"}, id \in ConversationIds}
    \cup {Request("POST", <<"api", "improve-prompt">>, Undefined, "ok", b) : b \in ImproveBodies}
    \cup {Request("OPTIONS", <<"api", "improve-prompt">>, o, "ok", EmptyObject) :
             o \in RequestOrigins \ {Undefined}}
    \cup {Request("GET", <<"api", "unknown">>, Undefined, "ok", EmptyObject),
          Request("GET", <<"index.html">>, Undefined, "ok", EmptyObject)}

\* ------------------------------------------------------------------------
\* State
\* ------------------------------------------------------------------------
VARIABLES
    cPrompt,     \* argument of the detectDomain call
    cResult,     \* its return value, NoResult before the call
    qDomain,     \* domain argument of the question functions
    qContext,    \* context argument of generateContextAwareQuestions
    qCall,       \* which question function ran, "none" before the call
    qResult,     \* its outcome: Return(list) or Throw(error)
    sText,       \* argument of calculatePromptScore
    sResult,     \* its return value with the four blocks increments
    contextStore, \* the Map behind ContextStorage: conversation id -> entry
    clock,       \* reading of the clock behind new Date()
    stOp,        \* the last storage call or context request and its outcome
    lastSaved,   \* history: per id the argument of the latest save since the last delete
    prevSaved,   \* history: per id the argument of the save before that one
    savedAtOf,   \* history: per id the clock reading of the latest save
    deleted,     \* history: per id, deleted and not saved again since
    aArgs,       \* arguments of the buildSystemPrompt call
    aResult,     \* its outcome: Return(text) or Throw(error)
    iPc,         \* where the improve-prompt handler stands
    iReq,        \* req.body of the improve-prompt request
    iGateway,    \* calls of openai.chat.completions.create and the messages sent
    iOutcome,    \* what the gateway did with the call
    iResp,       \* the response sent, NoResult before
    hPc,         \* where the request in the middleware chain stands
    hReq,        \* the HTTP request being served
    hErr,        \* the error handed to next(err), "none" without one
    hResp,       \* the HTTP response written, NoResult before
    hits,        \* rate limiter: requests counted per client in the current window
    hCalls,      \* core functions the handler of the request has called
    catalogAnswers, \* the answers arrays of DOMAIN_QUESTIONS, by catalog key and index
    held,        \* the objects a caller got from generateQuestions and holds
    returned,    \* what the latest generateQuestions call returned, as content
    mutations,   \* changes callers have made to results they hold
    inflight,    \* context requests in flight: per slot the request and where its handler stands
    execOrder    \* the slots in the order their handlers reached the storage call

classifyVars == <<cPrompt, cResult>>
questionVars == <<qDomain, qContext, qCall, qResult>>
scoreVars == <<sText, sResult>>
storeVars == <<contextStore, clock, stOp, lastSaved, prevSaved, savedAtOf, deleted>>
assembleVars == <<aArgs, aResult>>
improveVars == <<iPc, iReq, iGateway, iOutcome, iResp>>
serverVars == <<hPc, hReq, hErr, hResp, hits, hCalls>>
callerVars == <<catalogAnswers, held, returned, mutations>>
concVars == <<inflight, execOrder>>
vars == <<classifyVars, questionVars, scoreVars, storeVars, assembleVars, improveVars, serverVars,
          callerVars, concVars>>

ClassifyIdle == cPrompt = <<>> /\ cResult = NoResult
QuestionsIdle == qDomain = "general" /\ qContext = Undefined /\ qCall = "none" /\ qResult = NoResult
ScoreIdle == sText = <<>> /\ sResult = NoResult
AssembleIdle ==
    /\ aArgs = [domain |-> Undefined, context |-> Undefined, refinementAnswers |-> Undefined]
    /\ aResult = NoResult
ImproveIdle ==
    /\ iPc = "idle"
    /\ iReq = NoResult
    /\ iGateway = [calls |-> 0]
    /\ iOutcome = NoResult
    /\ iResp = NoResult
\* a slot without a request
FreeSlot ==
    [pc |-> "free", op |-> "none", id |-> "", context |-> Undefined, got |-> NoResult,
     savedAt |-> 0, resp |-> NoResult]

\* no context request is in flight
ConcurrentIdle ==
    /\ inflight = [s \in Slots |-> FreeSlot]
    /\ execOrder = <<>>

\* the catalog as written in the source, no result handed out
CallerIdle ==
    /\ catalogAnswers = CatalogAnswersAtStart
    /\ held = NoResult
    /\ returned = NoResult
    /\ mutations = 0

\* no request has arrived and the limiter has counted none
ServerIdle ==
    /\ hPc = "idle"
    /\ hReq = NoResult
    /\ hErr = "none"
    /\ hResp = NoResult
    /\ hits = [ip \in ClientIps |-> 0]
    /\ hCalls = {}

\* const contextStore = new Map(): empty at start
StoreInit ==
    /\ contextStore = << >>
    /\ clock = 1
    /\ stOp = [op |-> "none"]
    /\ lastSaved = [id \in ConversationIds |-> Undefined]
    /\ prevSaved = [id \in ConversationIds |-> Undefined]
    /\ savedAtOf = [id \in ConversationIds |-> 0]
    /\ deleted = [id \in ConversationIds |-> FALSE]

\* ------------------------------------------------------------------------
\* detectDomain applied to bounded prompts
\* ------------------------------------------------------------------------
InitClassify ==
    /\ cPrompt \in ClassifyPrompts
    /\ cResult = NoResult
    /\ QuestionsIdle
    /\ ScoreIdle
    /\ StoreInit
    /\ AssembleIdle
    /\ ImproveIdle
    /\ ServerIdle
    /\ CallerIdle
    /\ ConcurrentIdle

DetectDomain ==
    /\ cResult = NoResult
    /\ cResult' = detectDomain(cPrompt)
    /\ UNCHANGED <<cPrompt, questionVars, scoreVars, storeVars, assembleVars, improveVars, serverVars, callerVars, concVars>>

NextClassify == DetectDomain

SpecClassify == InitClassify /\ [][NextClassify]_vars

\* ------------------------------------------------------------------------
\* the question functions applied to bounded arguments
\* ------------------------------------------------------------------------
InitQuestions ==
    /\ qDomain \in QuestionDomains
    /\ qContext \in QuestionContexts
    /\ qCall = "none"
    /\ qResult = NoResult
    /\ ClassifyIdle
    /\ ScoreIdle
    /\ StoreInit
    /\ AssembleIdle
    /\ ImproveIdle
    /\ ServerIdle
    /\ CallerIdle
    /\ ConcurrentIdle

GenerateQuestions ==
    /\ qCall = "none"
    /\ qCall' = "generateQuestions"
    /\ qResult' = generateQuestions(qDomain)
    /\ UNCHANGED <<qDomain, qContext, classifyVars, scoreVars, storeVars, assembleVars, improveVars, serverVars, callerVars, concVars>>

GenerateContextAwareQuestions ==
    /\ qCall = "none"
    /\ qCall' = "generateContextAwareQuestions"
    /\ qResult' = generateContextAwareQuestions(qDomain, qContext)
    /\ UNCHANGED <<qDomain, qContext, classifyVars, scoreVars, storeVars, assembleVars, improveVars, serverVars, callerVars, concVars>>

NextQuestions == GenerateQuestions \/ GenerateContextAwareQuestions

SpecQuestions == InitQuestions /\ [][NextQuestions]_vars

\* ------------------------------------------------------------------------
\* calculatePromptScore applied to bounded texts
\* ------------------------------------------------------------------------
InitScore ==
    /\ sText \in ScoreTexts
    /\ sResult = NoResult
    /\ ClassifyIdle
    /\ QuestionsIdle
    /\ StoreInit
    /\ AssembleIdle
    /\ ImproveIdle
    /\ ServerIdle
    /\ CallerIdle
    /\ ConcurrentIdle

CalculatePromptScore ==
    /\ sResult = NoResult
    /\ sResult' = [clarity |-> ClarityScore(sText),
                   structure |-> StructureScore(sText),
                   completeness |-> CompletenessScore(sText),
                   specificity |-> SpecificityScore(sText),
                   score |-> calculatePromptScore(sText)]
    /\ UNCHANGED <<sText, classifyVars, questionVars, storeVars, assembleVars, improveVars, serverVars, callerVars, concVars>>

NextScore == CalculatePromptScore

SpecScore == InitScore /\ [][NextScore]_vars

\* ------------------------------------------------------------------------
\* the context store: ContextStorage called directly and through the two
\* /api/context endpoints
\* ------------------------------------------------------------------------
InitStore ==
    /\ StoreInit
    /\ ClassifyIdle
    /\ QuestionsIdle
    /\ ScoreIdle
    /\ AssembleIdle
    /\ ImproveIdle
    /\ ServerIdle
    /\ CallerIdle
    /\ ConcurrentIdle

otherVarsOfStore == <<classifyVars, questionVars, scoreVars, assembleVars, improveVars, serverVars, callerVars, concVars>>

\* time passes between two requests
Tick ==
    /\ clock < MaxClock
    /\ clock' = clock + 1
    /\ UNCHANGED <<contextStore, stOp, lastSaved, prevSaved, savedAtOf, deleted, otherVarsOfStore>>

\* the history variables after a save of context under conversationId
RecordSave(conversationId, context) ==
    /\ lastSaved' = [lastSaved EXCEPT ![conversationId] = context]
    /\ prevSaved' = [prevSaved EXCEPT ![conversationId] = lastSaved[conversationId]]
    /\ savedAtOf' = [savedAtOf EXCEPT ![conversationId] = clock]
    /\ deleted' = [deleted EXCEPT ![conversationId] = FALSE]

\* storage.saveContext(conversationId, context)
SaveContext(conversationId, context) ==
    /\ contextStore' = saveContext(contextStore, conversationId, context, clock)
    /\ stOp' = [op |-> "saveContext", id |-> conversationId, result |-> [success |-> TRUE]]
    /\ RecordSave(conversationId, context)
    /\ UNCHANGED <<clock, otherVarsOfStore>>

\* storage.getContext(conversationId)
GetContext(conversationId) ==
    /\ stOp' = [op |-> "getContext", id |-> conversationId,
                result |-> getContext(contextStore, conversationId)]
    /\ UNCHANGED <<contextStore, clock, lastSaved, prevSaved, savedAtOf, deleted, otherVarsOfStore>>

\* storage.deleteContext(conversationId)
DeleteContext(conversationId) ==
    /\ contextStore' = deleteContext(contextStore, conversationId)
    /\ stOp' = [op |-> "deleteContext", id |-> conversationId, result |-> [success |-> TRUE]]
    /\ lastSaved' = [lastSaved EXCEPT ![conversationId] = Undefined]
    /\ prevSaved' = [prevSaved EXCEPT ![conversationId] = Undefined]
    /\ deleted' = [deleted EXCEPT ![conversationId] = TRUE]
    /\ UNCHANGED <<clock, savedAtOf, otherVarsOfStore>>

\* the request is stored under its id before context is looked at
PostContext_SavesBeforeContextCheck(conversationId, context) ==
    /\ IF Falsy(conversationId)
       THEN /\ stOp' = [op |-> "POST /api/context", id |-> conversationId, status |-> 400,
                        body |-> [success |-> FALSE, error |-> "conversationId is required"]]
            /\ UNCHANGED <<contextStore, lastSaved, prevSaved, savedAtOf, deleted>>
       ELSE IF Falsy(context)
       THEN /\ contextStore' = saveContext(contextStore, conversationId.v, EmptyObject, clock)
            /\ stOp' = [op |-> "POST /api/context", id |-> conversationId, status |-> 400,
                        body |-> [success |-> FALSE, error |-> "context is required"]]
            /\ UNCHANGED <<lastSaved, prevSaved, savedAtOf, deleted>>
       ELSE /\ contextStore' = saveContext(contextStore, conversationId.v, context, clock)
            /\ RecordSave(conversationId.v, context)
            /\ stOp' = [op |-> "POST /api/context", id |-> conversationId, status |-> 200,
                        body |-> [success |-> TRUE, message |-> "Context saved successfully"]]
    /\ UNCHANGED <<clock, otherVarsOfStore>>

\* POST /api/context
PostContext(conversationId, context) ==
    /\ IF Falsy(conversationId)
       THEN /\ stOp' = [op |-> "POST /api/context", id |-> conversationId, status |-> 400,
                        body |-> [success |-> FALSE, error |-> "conversationId is required"]]
            /\ UNCHANGED <<contextStore, lastSaved, prevSaved, savedAtOf, deleted>>
       ELSE IF Falsy(context)
       THEN /\ stOp' = [op |-> "POST /api/context", id |-> conversationId, status |-> 400,
                        body |-> [success |-> FALSE, error |-> "context is required"]]
            /\ UNCHANGED <<contextStore, lastSaved, prevSaved, savedAtOf, deleted>>
       ELSE /\ contextStore' = saveContext(contextStore, conversationId.v, context, clock)
            /\ RecordSave(conversationId.v, context)
            /\ stOp' = [op |-> "POST /api/context", id |-> conversationId, status |-> 200,
                        body |-> [success |-> TRUE, message |-> "Context saved successfully"]]
    /\ UNCHANGED <<clock, otherVarsOfStore>>

\* GET /api/context/:conversationId
GetContextEndpoint(conversationId) ==
    /\ LET context == getContext(contextStore, conversationId)
       IN  IF context = Null
           THEN stOp' = [op |-> "GET /api/context", id |-> conversationId, status |-> 404,
                         body |-> [success |-> FALSE, error |-> "Context not found",
                                   found |-> FALSE]]
           ELSE stOp' = [op |-> "GET /api/context", id |-> conversationId, status |-> 200,
                         body |-> [success |-> TRUE, context |-> context, found |-> TRUE]]
    /\ UNCHANGED <<contextStore, clock, lastSaved, prevSaved, savedAtOf, deleted, otherVarsOfStore>>

NextStore ==
    \/ Tick
    \/ \E id \in ConversationIds, context \in StoredContexts : SaveContext(id, context)
    \/ \E id \in ConversationIds : GetContext(id)
    \/ \E id \in ConversationIds : DeleteContext(id)
    \/ \E id \in {Str(c) : c \in ConversationIds} \cup {Undefined, Str("")},
          context \in StoredContexts \cup {Undefined} :
           PostContext(id, context)
    \/ \E id \in ConversationIds : GetContextEndpoint(id)

SpecStore == InitStore /\ [][NextStore]_vars

\* ------------------------------------------------------------------------
\* buildSystemPrompt applied to bounded arguments
\* ------------------------------------------------------------------------
InitAssemble ==
    /\ aArgs \in [domain : AssembleDomains, context : AssembleContexts,
                  refinementAnswers : RefinementAnswerValues]
    /\ aResult = NoResult
    /\ ClassifyIdle
    /\ QuestionsIdle
    /\ ScoreIdle
    /\ StoreInit
    /\ ImproveIdle
    /\ ServerIdle
    /\ CallerIdle
    /\ ConcurrentIdle

BuildSystemPrompt ==
    /\ aResult = NoResult
    /\ aResult' = buildSystemPrompt(aArgs.domain, aArgs.context, aArgs.refinementAnswers)
    /\ UNCHANGED <<aArgs, classifyVars, questionVars, scoreVars, storeVars, improveVars, serverVars, callerVars, concVars>>

NextAssemble == BuildSystemPrompt

SpecAssemble == InitAssemble /\ [][NextAssemble]_vars

\* ------------------------------------------------------------------------
\* one improve-prompt request from arrival to response
\* ------------------------------------------------------------------------
InitImprove ==
    /\ iPc = "received"
    /\ iReq \in ImproveRequests
    /\ iGateway = [calls |-> 0]
    /\ iOutcome = NoResult
    /\ iResp = NoResult
    /\ ClassifyIdle
    /\ QuestionsIdle
    /\ ScoreIdle
    /\ StoreInit
    /\ AssembleIdle
    /\ ServerIdle
    /\ CallerIdle
    /\ ConcurrentIdle

otherVarsOfImprove == <<classifyVars, questionVars, scoreVars, storeVars, assembleVars, serverVars, callerVars, concVars>>

\* the three input checks
ValidateRequest ==
    /\ iPc = "received"
    /\ IF PromptMissingOrNotString(iReq.prompt)
       THEN /\ iResp' = Response(400, ErrorBody("Invalid prompt: must be a non-empty string"))
            /\ iPc' = "done"
       ELSE IF PromptBlank(iReq.prompt)
       THEN /\ iResp' = Response(400, ErrorBody("Prompt cannot be empty"))
            /\ iPc' = "done"
       ELSE IF PlatformRejected(iReq.platform)
       THEN /\ iResp' = Response(400, ErrorBody("Invalid platform: must be 'chatgpt' or 'claude'"))
            /\ iPc' = "done"
       ELSE /\ iResp' = iResp
            /\ iPc' = "validated"
    /\ UNCHANGED <<iReq, iGateway, iOutcome, otherVarsOfImprove>>

\* buildSystemPrompt, then openai.chat.completions.create with both messages
CallGateway ==
    /\ iPc = "validated"
    /\ LET systemPrompt == buildSystemPrompt(iReq.domain, EffectiveContext(iReq.context),
                                             iReq.refinementAnswers)
       IN  IF ~systemPrompt.ok
           THEN /\ iResp' = CatchResponse(RuntimeErrors[systemPrompt.error])
                /\ iPc' = "done"
                /\ iGateway' = iGateway
           ELSE /\ iGateway' = [calls |-> iGateway.calls + 1,
                                system |-> systemPrompt.value,
                                user |-> buildUserMessage(iReq.prompt.v, iReq.context)]
                /\ iPc' = "awaiting"
                /\ iResp' = iResp
    /\ UNCHANGED <<iReq, iOutcome, otherVarsOfImprove>>

\* a rejected gateway call is made once more before the handler gives up
GatewayResponds_RetriesOnError(outcome) ==
    /\ iPc = "awaiting"
    /\ iOutcome' = outcome
    /\ IF outcome.kind = "error" /\ iGateway.calls < 2
       THEN /\ iGateway' = [iGateway EXCEPT !.calls = @ + 1]
            /\ iResp' = iResp
            /\ iPc' = "awaiting"
       ELSE /\ iGateway' = iGateway
            /\ iResp' = GatewayResponse(iReq, outcome, clock)
            /\ iPc' = "done"
    /\ UNCHANGED <<iReq, otherVarsOfImprove>>

\* the await ends: the gateway answered or failed
GatewayResponds(outcome) ==
    /\ iPc = "awaiting"
    /\ iOutcome' = outcome
    /\ iResp' = GatewayResponse(iReq, outcome, clock)
    /\ iPc' = "done"
    /\ UNCHANGED <<iReq, iGateway, otherVarsOfImprove>>

NextImprove ==
    \/ ValidateRequest
    \/ CallGateway
    \/ \E outcome \in GatewayOutcomes : GatewayResponds(outcome)

SpecImprove == InitImprove /\ [][NextImprove]_vars

\* ------------------------------------------------------------------------
\* the server: one request at a time through the middleware chain
\* ------------------------------------------------------------------------
InitServer ==
    /\ ServerIdle
    /\ ClassifyIdle
    /\ QuestionsIdle
    /\ ScoreIdle
    /\ StoreInit
    /\ AssembleIdle
    /\ ImproveIdle
    /\ CallerIdle
    /\ ConcurrentIdle

coreVars == <<classifyVars, questionVars, scoreVars, assembleVars, callerVars, concVars>>

\* a request arrives once the one before is answered
Receive(req) ==
    /\ hPc \in {"idle", "sent"}
    /\ hits[req.ip] < RateLimitMax + MaxOverLimit
    /\ hReq' = req
    /\ hPc' = "json"
    /\ hErr' = "none"
    /\ hResp' = NoResult
    /\ hCalls' = {}
    /\ iPc' = "idle"
    /\ iReq' = NoResult
    /\ iGateway' = [calls |-> 0]
    /\ iOutcome' = NoResult
    /\ iResp' = NoResult
    /\ UNCHANGED <<hits, storeVars, coreVars>>

\* the rate limit window ends
WindowElapses ==
    /\ hPc \in {"idle", "sent"}
    /\ clock < MaxClock
    /\ clock' = clock + 1
    /\ hits' = [ip \in ClientIps |-> 0]
    /\ UNCHANGED <<hPc, hReq, hErr, hResp, hCalls, contextStore, stOp, lastSaved, prevSaved,
                   savedAtOf, deleted, improveVars, coreVars>>

\* app.use(express.json({ limit: "10kb" }))
ExpressJson ==
    /\ hPc = "json"
    /\ IF hReq.parse = "error"
       THEN hErr' = "entity.parse.failed" /\ hPc' = "error"
       ELSE hErr' = hErr /\ hPc' = "cors"
    /\ UNCHANGED <<hReq, hResp, hits, hCalls, storeVars, improveVars, coreVars>>

\* app.use(cors(corsOptions)): a refused origin goes to next(err), a
\* preflight is answered by the middleware
Cors ==
    /\ hPc = "cors"
    /\ IF ~CorsAllows(hReq.origin)
       THEN hErr' = "Not allowed by CORS" /\ hPc' = "error" /\ hResp' = hResp
       ELSE IF hReq.method = "OPTIONS"
       THEN hErr' = hErr /\ hPc' = "sent" /\ hResp' = Response(204, EmptyObject)
       ELSE hErr' = hErr /\ hPc' = "limiter" /\ hResp' = hResp
    /\ UNCHANGED <<hReq, hits, hCalls, storeVars, improveVars, coreVars>>

\* app.use("/api/", limiter): the request is counted, and beyond max the
\* limiter sends its message option, a string, with status 429
Limiter ==
    /\ hPc = "limiter"
    /\ IF ~UnderApi(hReq.path)
       THEN hits' = hits /\ hPc' = "routes" /\ hResp' = hResp
       ELSE /\ hits' = [hits EXCEPT ![hReq.ip] = @ + 1]
            /\ IF hits[hReq.ip] + 1 > RateLimitMax
               THEN /\ hResp' = Response(429, Str("Too many requests, please try again later"))
                    /\ hPc' = "sent"
               ELSE hResp' = hResp /\ hPc' = "routes"
    /\ UNCHANGED <<hReq, hErr, hCalls, storeVars, improveVars, coreVars>>

IsRoute(req, method, path) == req.method = method /\ req.path = path

IsGetContextRoute(req) ==
    /\ req.method = "GET"
    /\ Len(req.path) = 3
    /\ req.path[1] = "api"
    /\ req.path[2] = "context"

\* app.get("/health")
HealthEndpoint ==
    /\ hPc = "routes"
    /\ IsRoute(hReq, "GET", <<"health">>)
    /\ hResp' = Response(200, [status |-> "ok", timestamp |-> clock,
                               environment |-> "production", version |-> "1.5"])
    /\ hPc' = "sent"
    /\ UNCHANGED <<hReq, hErr, hits, hCalls, storeVars, improveVars, coreVars>>

\* app.post("/api/detect-domain")
DetectDomainEndpoint ==
    /\ hPc = "routes"
    /\ IsRoute(hReq, "POST", <<"api", "detect-domain">>)
    /\ hResp' = detectDomainEndpoint(hReq.body).resp
    /\ hCalls' = detectDomainEndpoint(hReq.body).calls
    /\ hPc' = "sent"
    /\ UNCHANGED <<hReq, hErr, hits, storeVars, improveVars, coreVars>>

\* app.post("/api/generate-questions")
GenerateQuestionsEndpoint ==
    /\ hPc = "routes"
    /\ IsRoute(hReq, "POST", <<"api", "generate-questions">>)
    /\ hResp' = generateQuestionsEndpoint(hReq.body).resp
    /\ hCalls' = generateQuestionsEndpoint(hReq.body).calls
    /\ hPc' = "sent"
    /\ UNCHANGED <<hReq, hErr, hits, storeVars, improveVars, coreVars>>

\* app.post("/api/context")
PostContextEndpoint ==
    /\ hPc = "routes"
    /\ IsRoute(hReq, "POST", <<"api", "context">>)
    /\ LET conversationId == Field(hReq.body, "conversationId")
           context == Field(hReq.body, "context")
       IN  IF Falsy(conversationId)
           THEN /\ hResp' = Response(400, ErrorBody("conversationId is required"))
                /\ hCalls' = hCalls
                /\ UNCHANGED <<contextStore, lastSaved, prevSaved, savedAtOf, deleted>>
           ELSE IF Falsy(context)
           THEN /\ hResp' = Response(400, ErrorBody("context is required"))
                /\ hCalls' = hCalls
                /\ UNCHANGED <<contextStore, lastSaved, prevSaved, savedAtOf, deleted>>
           ELSE /\ contextStore' = saveContext(contextStore, conversationId.v, context, clock)
                /\ RecordSave(conversationId.v, context)
                /\ hCalls' = {"saveContext"}
                /\ hResp' = Response(200, [success |-> TRUE,
                                           message |-> "Context saved successfully"])
    /\ hPc' = "sent"
    /\ UNCHANGED <<hReq, hErr, hits, clock, stOp, improveVars, coreVars>>

\* app.get("/api/context/:conversationId")
GetContextRoute ==
    /\ hPc = "routes"
    /\ IsGetContextRoute(hReq)
    /\ LET context == getContext(contextStore, hReq.path[3])
       IN  IF context = Null
           THEN hResp' = Response(404, [success |-> FALSE, error |-> "Context not found",
                                        found |-> FALSE])
           ELSE hResp' = Response(200, [success |-> TRUE, context |-> context, found |-> TRUE])
    /\ hCalls' = {"getContext"}
    /\ hPc' = "sent"
    /\ UNCHANGED <<hReq, hErr, hits, storeVars, improveVars, coreVars>>

\* a request without context is completed with the context saved under its
\* conversationId
ImprovePromptEndpoint_LoadsSavedContext ==
    /\ hPc = "routes"
    /\ IsRoute(hReq, "POST", <<"api", "improve-prompt">>)
    /\ LET conversationId == Field(hReq.body, "conversationId")
           saved == IF IsString(conversationId)
                    THEN getContext(contextStore, conversationId.v)
                    ELSE Null
       IN  iReq' = [f \in {"prompt", "platform", "domain", "context", "refinementAnswers"} |->
                       IF f = "context" /\ Field(hReq.body, f) = Undefined /\ saved # Null
                       THEN saved
                       ELSE Field(hReq.body, f)]
    /\ iPc' = "received"
    /\ hPc' = "improve"
    /\ UNCHANGED <<hReq, hErr, hResp, hits, hCalls, iGateway, iOutcome, iResp,
                   storeVars, coreVars>>

\* app.post("/api/improve-prompt"): the handler starts on req.body
ImprovePromptEndpoint ==
    /\ hPc = "routes"
    /\ IsRoute(hReq, "POST", <<"api", "improve-prompt">>)
    /\ iReq' = [f \in {"prompt", "platform", "domain", "context", "refinementAnswers"} |->
                   Field(hReq.body, f)]
    /\ iPc' = "received"
    /\ hPc' = "improve"
    /\ UNCHANGED <<hReq, hErr, hResp, hits, hCalls, iGateway, iOutcome, iResp,
                   storeVars, coreVars>>

\* the improve-prompt handler has written its response
ImprovePromptResponds ==
    /\ hPc = "improve"
    /\ iPc = "done"
    /\ hResp' = iResp
    /\ hPc' = "sent"
    /\ UNCHANGED <<hReq, hErr, hits, hCalls, storeVars, improveVars, coreVars>>

\* a DELETE /api/context/:conversationId route calls storage.deleteContext
NotFoundHandler_DeleteRoute ==
    /\ hPc = "routes"
    /\ ~IsRoute(hReq, "GET", <<"health">>)
    /\ ~IsRoute(hReq, "POST", <<"api", "detect-domain">>)
    /\ ~IsRoute(hReq, "POST", <<"api", "generate-questions">>)
    /\ ~IsRoute(hReq, "POST", <<"api", "context">>)
    /\ ~IsGetContextRoute(hReq)
    /\ ~IsRoute(hReq, "POST", <<"api", "improve-prompt">>)
    /\ IF hReq.method = "DELETE" /\ Len(hReq.path) = 3 /\ hReq.path[2] = "context"
       THEN /\ contextStore' = deleteContext(contextStore, hReq.path[3])
            /\ hResp' = Response(200, [success |-> TRUE])
       ELSE /\ contextStore' = contextStore
            /\ hResp' = Response(404, ErrorBody("Endpoint not found"))
    /\ hPc' = "sent"
    /\ UNCHANGED <<hReq, hErr, hits, hCalls, clock, stOp, lastSaved, prevSaved, savedAtOf,
                   deleted, improveVars, coreVars>>

\* no route took the request: the 404 handler
NotFoundHandler ==
    /\ hPc = "routes"
    /\ ~IsRoute(hReq, "GET", <<"health">>)
    /\ ~IsRoute(hReq, "POST", <<"api", "detect-domain">>)
    /\ ~IsRoute(hReq, "POST", <<"api", "generate-questions">>)
    /\ ~IsRoute(hReq, "POST", <<"api", "context">>)
    /\ ~IsGetContextRoute(hReq)
    /\ ~IsRoute(hReq, "POST", <<"api", "improve-prompt">>)
    /\ hResp' = Response(404, ErrorBody("Endpoint not found"))
    /\ hPc' = "sent"
    /\ UNCHANGED <<hReq, hErr, hits, hCalls, storeVars, improveVars, coreVars>>

\* the error handling middleware, reached through next(err)
ErrorMiddleware ==
    /\ hPc = "error"
    /\ hResp' = Response(500, ErrorBody("Internal server error"))
    /\ hPc' = "sent"
    /\ UNCHANGED <<hReq, hErr, hits, hCalls, storeVars, improveVars, coreVars>>

NextServer ==
    \/ \E req \in ServerRequests : Receive(req)
    \/ WindowElapses
    \/ ExpressJson
    \/ Cors
    \/ Limiter
    \/ HealthEndpoint
    \/ DetectDomainEndpoint
    \/ GenerateQuestionsEndpoint
    \/ PostContextEndpoint
    \/ GetContextRoute
    \/ ImprovePromptEndpoint
    \/ ValidateRequest
    \/ CallGateway
    \/ \E outcome \in GatewayOutcomes : GatewayResponds(outcome)
    \/ ImprovePromptResponds
    \/ NotFoundHandler
    \/ ErrorMiddleware

SpecServer == InitServer /\ [][NextServer]_vars

\* ------------------------------------------------------------------------
\* callers of generateQuestions that change what they were given
\* ------------------------------------------------------------------------
InitCaller ==
    /\ CallerIdle
    /\ ClassifyIdle
    /\ QuestionsIdle
    /\ ScoreIdle
    /\ StoreInit
    /\ AssembleIdle
    /\ ImproveIdle
    /\ ServerIdle
    /\ ConcurrentIdle

otherVarsOfCaller ==
    <<classifyVars, questionVars, scoreVars, storeVars, assembleVars, improveVars, serverVars,
      concVars>>

\* a caller calls generateQuestions(domain) and keeps the result
CallGenerateQuestions(domain) ==
    /\ LET result == generateQuestionsObjects(domain)
       IN  IF result.ok
           THEN /\ held' = [list |-> result.value]
                /\ returned' = [domain |-> domain, ok |-> TRUE,
                                value |-> Content(result.value, catalogAnswers)]
           ELSE /\ held' = NoResult
                /\ returned' = [domain |-> domain, ok |-> FALSE]
    /\ UNCHANGED <<catalogAnswers, mutations, otherVarsOfCaller>>

\* the caller removes the first question from the list it holds
CallerShiftsList ==
    /\ held # NoResult
    /\ Len(held.list) > 0
    /\ mutations < MaxMutations
    /\ held' = [list |-> Tail(held.list)]
    /\ mutations' = mutations + 1
    /\ UNCHANGED <<catalogAnswers, returned, otherVarsOfCaller>>

\* the caller overwrites the text of a question it holds
CallerSetsText(i) ==
    /\ held # NoResult
    /\ i \in 1..Len(held.list)
    /\ mutations < MaxMutations
    /\ held' = [held EXCEPT !.list[i].text = "changed"]
    /\ mutations' = mutations + 1
    /\ UNCHANGED <<catalogAnswers, returned, otherVarsOfCaller>>

\* the caller pushes an answer onto the answers array of a question it holds
CallerPushesAnswer(i) ==
    /\ held # NoResult
    /\ i \in 1..Len(held.list)
    /\ mutations < MaxMutations
    /\ catalogAnswers' = [catalogAnswers EXCEPT ![held.list[i].answers] =
                              Append(@, [label |-> "changed", value |-> "changed"])]
    /\ mutations' = mutations + 1
    /\ UNCHANGED <<held, returned, otherVarsOfCaller>>

NextCaller ==
    \/ \E domain \in CallerDomains : CallGenerateQuestions(domain)
    \/ CallerShiftsList
    \/ \E i \in 1..3 : CallerSetsText(i)
    \/ \E i \in 1..3 : CallerPushesAnswer(i)

SpecCaller == InitCaller /\ [][NextCaller]_vars

\* ------------------------------------------------------------------------
\* context requests in flight together: each async handler runs up to its
\* await in one piece and resumes later
\* ------------------------------------------------------------------------
InitConcurrent ==
    /\ ConcurrentIdle
    /\ ClassifyIdle
    /\ QuestionsIdle
    /\ ScoreIdle
    /\ StoreInit
    /\ AssembleIdle
    /\ ImproveIdle
    /\ ServerIdle
    /\ CallerIdle

otherVarsOfConcurrent ==
    <<classifyVars, questionVars, scoreVars, assembleVars, improveVars, serverVars, callerVars>>

historyVars == <<lastSaved, prevSaved, savedAtOf, deleted>>

\* a POST /api/context or GET /api/context/:conversationId request arrives
\* and waits for its handler to be run. The handlers run in any order
\* whatever the order of arrival, so the slots are taken in order and hold
\* the requests in the order of ConcurrentRequests
Arrive(s, k) ==
    /\ inflight[s].pc = "free"
    /\ \A t \in Slots : t < s => inflight[t].pc # "free"
    /\ s > 1 => \E j \in 1..k :
                    /\ inflight[s - 1].op = ConcurrentRequests[j].op
                    /\ inflight[s - 1].id = ConcurrentRequests[j].id
                    /\ inflight[s - 1].context = ConcurrentRequests[j].context
    /\ inflight' = [inflight EXCEPT ![s] =
                        [FreeSlot EXCEPT !.pc = "arrived",
                                         !.op = ConcurrentRequests[k].op,
                                         !.id = ConcurrentRequests[k].id,
                                         !.context = ConcurrentRequests[k].context]]
    /\ UNCHANGED <<execOrder, storeVars, otherVarsOfConcurrent>>

\* the clock advances; only a save that has yet to run reads it
ClockAdvances ==
    /\ clock < MaxClock
    /\ \E s \in Slots : inflight[s].pc = "arrived" /\ inflight[s].op = "save"
    /\ clock' = clock + 1
    /\ UNCHANGED <<contextStore, stOp, historyVars, concVars, otherVarsOfConcurrent>>

\* the handler of POST /api/context runs from its start to
\* await storage.saveContext(...): the checks, and contextStore.set inside
\* saveContext, which runs before the promise is handed back
PostContextRunsToAwait(s) ==
    /\ inflight[s].pc = "arrived"
    /\ inflight[s].op = "save"
    /\ IF Falsy(inflight[s].context)
       THEN /\ inflight' = [inflight EXCEPT ![s].pc = "responded",
                                ![s].resp = Response(400, ErrorBody("context is required"))]
            /\ UNCHANGED <<contextStore, historyVars, execOrder>>
       ELSE /\ contextStore' = saveContext(contextStore, inflight[s].id, inflight[s].context, clock)
            /\ RecordSave(inflight[s].id, inflight[s].context)
            /\ inflight' = [inflight EXCEPT ![s].pc = "awaiting", ![s].savedAt = clock]
            /\ execOrder' = Append(execOrder, s)
    /\ UNCHANGED <<clock, stOp, otherVarsOfConcurrent>>

\* the handler of GET /api/context/:conversationId runs from its start to
\* await storage.getContext(...): contextStore.get inside getContext runs
\* before the promise is handed back
GetContextRunsToAwait(s) ==
    /\ inflight[s].pc = "arrived"
    /\ inflight[s].op = "get"
    /\ inflight' = [inflight EXCEPT ![s].pc = "awaiting",
                        ![s].got = getContext(contextStore, inflight[s].id)]
    /\ execOrder' = Append(execOrder, s)
    /\ UNCHANGED <<storeVars, otherVarsOfConcurrent>>

\* a handler resumes after its await and writes the response
HandlerResumes(s) ==
    /\ inflight[s].pc = "awaiting"
    /\ inflight' = [inflight EXCEPT ![s].pc = "responded",
            ![s].resp =
                IF inflight[s].op = "save"
                THEN Response(200, [success |-> TRUE, message |-> "Context saved successfully"])
                ELSE IF inflight[s].got = Null
                THEN Response(404, [success |-> FALSE, error |-> "Context not found",
                                    found |-> FALSE])
                ELSE Response(200, [success |-> TRUE, context |-> inflight[s].got,
                                    found |-> TRUE])]
    /\ UNCHANGED <<execOrder, storeVars, otherVarsOfConcurrent>>

NextConcurrent ==
    \/ \E s \in Slots, k \in 1..Len(ConcurrentRequests) : Arrive(s, k)
    \/ ClockAdvances
    \/ \E s \in Slots : PostContextRunsToAwait(s)
    \/ \E s \in Slots : GetContextRunsToAwait(s)
    \/ \E s \in Slots : HandlerResumes(s)

SpecConcurrent == InitConcurrent /\ [][NextConcurrent]_vars

\* ------------------------------------------------------------------------
\* Properties
\* ------------------------------------------------------------------------
\* a <= b on doubles, written for the properties only
NotAbove(a, b) == a[1] < b[1] \/ (a[1] = b[1] /\ a[2] <= b[2])

ProfileDomains == {DomainOrder[i] : i \in 1..Len(DomainOrder)}

\* C4 as stated: the scores map has an entry for the returned domain, and
\* that entry is the maximum of all entries, also when the domain is general
C4_ScoresHasReturnedDomain ==
    cResult # NoResult =>
        /\ cResult.domain \in DOMAIN cResult.scores
        /\ \A d \in DOMAIN cResult.scores :
               NotAbove(cResult.scores[d], cResult.scores[cResult.domain])

\* C4 amended: the scores map has exactly one entry per profile and none for
\* general; a returned domain other than general has the maximum entry; when
\* general is returned every entry is 0
C4_ReturnedProfileHasMaxScore ==
    cResult # NoResult =>
        /\ DOMAIN cResult.scores = ProfileDomains
        /\ "general" \notin DOMAIN cResult.scores
        /\ cResult.domain # "general" =>
               /\ cResult.domain \in DOMAIN cResult.scores
               /\ \A d \in DOMAIN cResult.scores :
                      NotAbove(cResult.scores[d], cResult.scores[cResult.domain])
        /\ cResult.domain = "general" =>
               \A d \in DOMAIN cResult.scores : cResult.scores[d] = <<0, 0>>

\* a profile was returned while another profile scored lower but above 0
C4_Witness ==
    /\ cResult # NoResult
    /\ cResult.domain # "general"
    /\ \E d \in DOMAIN cResult.scores :
           /\ cResult.scores[d] # <<0, 0>>
           /\ ~NotAbove(cResult.scores[cResult.domain], cResult.scores[d])

\* C5: the returned domain is the first one, in profile order, whose score is
\* the maximum when that maximum is above 0; it is general exactly when every
\* score is 0, and then the confidence is 0
C5_FirstMaxWinsElseGeneral ==
    cResult # NoResult =>
        LET s == cResult.scores
            IsMax(i) == \A j \in 1..Len(DomainOrder) :
                            NotAbove(s[DomainOrder[j]], s[DomainOrder[i]])
            allZero == \A d \in ProfileDomains : s[d] = <<0, 0>>
        IN  /\ (cResult.domain = "general") <=> allZero
            /\ ~allZero =>
                   \E i \in 1..Len(DomainOrder) :
                       /\ DomainOrder[i] = cResult.domain
                       /\ IsMax(i)
                       /\ \A j \in 1..(i - 1) : ~IsMax(j)
            /\ cResult.domain = "general" => cResult.confidence = 0

\* a tie: a later profile has the same score as the returned one
C5_Witness ==
    /\ cResult # NoResult
    /\ cResult.domain # "general"
    /\ \E i, j \in 1..Len(DomainOrder) :
           /\ i < j
           /\ DomainOrder[i] = cResult.domain
           /\ cResult.scores[DomainOrder[j]] = cResult.scores[DomainOrder[i]]

\* C8 as stated: for a domain without a catalog entry generateQuestions
\* returns the general list (three questions q1..q3) and does not throw
C8_UnregisteredFallsBackToGeneral ==
    (qCall = "generateQuestions" /\ qDomain \notin DOMAIN DOMAIN_QUESTIONS) =>
        /\ qResult.ok
        /\ qResult.value = DOMAIN_QUESTIONS["general"]
        /\ [i \in 1..Len(qResult.value) |-> qResult.value[i].id] = <<"q1", "q2", "q3">>

\* the list the filter is specified to return: the catalog list (general
\* for a domain without an entry) without the asked texts, in catalog order,
\* or the whole list when nothing would be left
ExpectedFiltered(domain, context) ==
    LET catalog == IF domain \in DOMAIN DOMAIN_QUESTIONS
                   THEN DOMAIN_QUESTIONS[domain] ELSE DOMAIN_QUESTIONS["general"]
        asked == IF Has(context, "questionsAsked")
                 THEN {context.questionsAsked[i] : i \in 1..Len(context.questionsAsked)}
                 ELSE {}
        NotAsked(q) == q.text \notin asked
        rest == SelectSeq(catalog, NotAsked)
    IN  IF rest = <<>> THEN catalog ELSE rest

\* C9 as stated: generateContextAwareQuestions returns the catalog list
\* without the questions already asked, or the unfiltered list when that
\* would be empty, so never an empty list
C9_FilterKeepsCatalogOrderNeverEmpty ==
    qCall = "generateContextAwareQuestions" =>
        /\ qResult.ok
        /\ qResult.value = ExpectedFiltered(qDomain, qContext)
        /\ qResult.value # <<>>

\* C10: the score is an integer in 0..100 and no block contributes more than
\* its cap (clarity 25, structure 15, completeness 15, specificity 15)
C10_ScoreAndBlocksWithinCaps ==
    sResult # NoResult =>
        /\ sResult.score \in 0..100
        /\ sResult.clarity \in 0..25
        /\ sResult.structure \in 0..15
        /\ sResult.completeness \in 0..15
        /\ sResult.specificity \in 0..15

\* a text on which every block is at its cap
C10_Witness ==
    /\ sResult # NoResult
    /\ sResult.clarity = 25
    /\ sResult.structure = 15
    /\ sResult.completeness = 15
    /\ sResult.specificity = 15

\* v is the saved argument X plus the save timestamp: the fields of X and
\* savedAt, nothing else
IsSavedValue(v, X, stamp) ==
    /\ DOMAIN v = (DOMAIN X) \cup {"savedAt"}
    /\ v["savedAt"] = stamp
    /\ \A f \in (DOMAIN X) \ {"savedAt"} : v[f] = X[f]

\* C6: the store holds, for every id, exactly the argument of the latest save
\* since the last delete plus its timestamp (no entry if there is none), and
\* getContext and GET /api/context return that value
C6_LastSaveWins ==
    /\ \A id \in ConversationIds :
           IF lastSaved[id] = Undefined
           THEN id \notin DOMAIN contextStore
           ELSE /\ id \in DOMAIN contextStore
                /\ IsSavedValue(contextStore[id], lastSaved[id], savedAtOf[id])
    /\ stOp.op = "getContext" =>
           IF lastSaved[stOp.id] = Undefined
           THEN stOp.result = Null
           ELSE IsSavedValue(stOp.result, lastSaved[stOp.id], savedAtOf[stOp.id])
    /\ (stOp.op = "GET /api/context" /\ lastSaved[stOp.id] # Undefined) =>
           /\ stOp.status = 200
           /\ IsSavedValue(stOp.body.context, lastSaved[stOp.id], savedAtOf[stOp.id])

\* a get of an id saved twice, the earlier save having a field the later
\* one lacks, while the other id holds an entry too
C6_Witness ==
    /\ stOp.op = "getContext"
    /\ stOp.result # Null
    /\ prevSaved[stOp.id] # Undefined
    /\ (DOMAIN prevSaved[stOp.id]) \ (DOMAIN stOp.result) # {}
    /\ \E other \in DOMAIN contextStore : other # stOp.id

\* C7: a get of a deleted id that was not saved again finds nothing (null
\* from the storage, 404 with found false from the endpoint), and a delete of
\* an absent id succeeds and leaves the store as it was
C7_DeleteThenNotFound ==
    /\ [](/\ (stOp.op = "getContext" /\ deleted[stOp.id]) => stOp.result = Null
          /\ (stOp.op = "GET /api/context" /\ deleted[stOp.id]) =>
                 (stOp.status = 404 /\ stOp.body.found = FALSE))
    /\ [][\A id \in ConversationIds :
              (DeleteContext(id) /\ id \notin DOMAIN contextStore) =>
                  (contextStore' = contextStore /\ stOp'.result = [success |-> TRUE])]_vars

\* the endpoint answered 404 for an id that had been saved and then deleted
C7_Witness ==
    /\ stOp.op = "GET /api/context"
    /\ deleted[stOp.id]
    /\ savedAtOf[stOp.id] > 0
    /\ stOp.status = 404

\* C3: with at least one refinement answer and more than one previous prompt
\* (entries {original, domain}) buildSystemPrompt returns the full instruction
\* text with the refinement block, not the follow-up text
C3_RefinementBeforeFollowUp ==
    ( /\ aResult # NoResult
      /\ aArgs.refinementAnswers # Undefined
      /\ DOMAIN aArgs.refinementAnswers # {}
      /\ aArgs.context # Undefined
      /\ "previousPrompts" \in DOMAIN aArgs.context
      /\ Len(aArgs.context.previousPrompts) > 1
      /\ \A i \in 1..Len(aArgs.context.previousPrompts) :
             DOMAIN aArgs.context.previousPrompts[i] = {"original", "domain"} )
    => /\ aResult.ok
       /\ aResult.value.kind = "full"
       /\ aResult.value.contextInstructions.block = "refinement"

\* refinementAnswers = {q1: "a"} with two previous prompts was assembled
C3_Witness ==
    /\ aResult # NoResult
    /\ aArgs.refinementAnswers = [q1 |-> "a"]
    /\ aArgs.context # Undefined
    /\ "previousPrompts" \in DOMAIN aArgs.context
    /\ Len(aArgs.context.previousPrompts) = 2
    /\ aResult.ok
    /\ aResult.value.kind = "full"

\* the request passes the checks of the endpoint: a non-empty string prompt
\* and a platform of chatgpt or claude
AcceptableRequest(r) ==
    /\ "t" \in DOMAIN r.prompt
    /\ r.prompt.t = "text"
    /\ \E i \in 1..Len(r.prompt.v) : r.prompt.v[i] \notin {" ", "\t", "\n"}
    /\ r.platform \in {[t |-> "string", v |-> "chatgpt"], [t |-> "string", v |-> "claude"]}

\* the completion text has at least 5 characters after trimming
UsableCompletion(outcome) ==
    /\ outcome # NoResult
    /\ outcome.kind = "content"
    /\ \E i, j \in 1..Len(outcome.content) :
           /\ j - i + 1 >= 5
           /\ outcome.content[i] \notin {" ", "\t", "\n"}
           /\ outcome.content[j] \notin {" ", "\t", "\n"}

\* C1 as stated: when the gateway returned a completion of at least 5
\* characters the handler ends with the success response carrying improved,
\* score, questions, contextAware, isRefinement and timestamp
C1_UsableCompletionEndsInSuccess ==
    (iPc = "done" /\ UsableCompletion(iOutcome)) =>
        /\ iResp.status = 200
        /\ iResp.body.success = TRUE
        /\ {"improved", "score", "questions", "contextAware", "isRefinement", "timestamp"}
               \subseteq DOMAIN iResp.body

\* C2: the gateway is called only for a request that passed the prompt and
\* platform checks, and a request that fails one of them ends with 400 and
\* without a gateway call
C2_GatewayOnlyAfterValidation ==
    /\ iGateway.calls > 0 => AcceptableRequest(iReq)
    /\ (iPc \notin {"idle", "received"} /\ ~AcceptableRequest(iReq)) =>
           /\ iPc = "done"
           /\ iResp.status = 400
           /\ iResp.body.success = FALSE
           /\ iGateway.calls = 0

\* platform discord with a good prompt was rejected
C2_Witness ==
    /\ iPc = "done"
    /\ iReq.platform = [t |-> "string", v |-> "discord"]
    /\ iReq.prompt = [t |-> "text", v |-> PromptNeedHelp]
    /\ iResp.status = 400
    /\ iGateway.calls = 0

\* the status the error taxonomy gives a failed gateway call
ExpectedFailureStatus(outcome) ==
    IF outcome.kind = "error"
    THEN CASE outcome.error.cause = "auth" -> 401
           [] outcome.error.cause = "throttled" -> 429
           [] outcome.error.cause = "timeout" -> 504
           [] outcome.error.cause = "network" -> 503
           [] OTHER -> 500
    ELSE 500

\* the gateway call failed: it rejected, or its answer has no completion
\* text, or the text is shorter than 5 characters after trimming
GatewayFailed(outcome) ==
    /\ outcome # NoResult
    /\ outcome.kind = "content" => ~UsableCompletion(outcome)

\* C11 as stated: a failed gateway call is answered with exactly the status
\* of its cause: 401 rejected credentials, 429 throttled, 504 no answer in
\* time, 503 network failure, 500 missing or short completion text and
\* anything else
C11_GatewayFailureStatusByCause ==
    (iPc = "done" /\ GatewayFailed(iOutcome)) =>
        /\ iResp.status = ExpectedFailureStatus(iOutcome)
        /\ iResp.body.success = FALSE

\* the messages of the error responses
ErrorMessages ==
    {"Invalid prompt: must be a non-empty string", "Prompt cannot be empty",
     "Invalid platform: must be 'chatgpt' or 'claude'", "Domain is required",
     "conversationId is required", "context is required", "Context not found",
     "Failed to detect domain", "Failed to generate questions", "Failed to save context",
     "Failed to retrieve context", "Generated prompt is too short",
     "Authentication error with OpenAI API",
     "Rate limited by OpenAI API. Please try again later.",
     "Request timed out. Please try again.", "Network error. Please try again later.",
     "Failed to improve prompt. Please try again.", "Internal server error",
     "Endpoint not found", "Too many requests, please try again later"}

\* C12 as stated: every response with an error status, the rate limiter's
\* included, is a JSON object with success false and an error message from
\* the fixed set
C12_ErrorResponsesAreJsonWithSuccessFalse ==
    (hResp # NoResult /\ hResp.status >= 400) =>
        /\ "success" \in DOMAIN hResp.body
        /\ hResp.body.success = FALSE
        /\ "error" \in DOMAIN hResp.body
        /\ hResp.body.error \in ErrorMessages

\* a string with a character that is not white space
NonBlankString(v) ==
    /\ "t" \in DOMAIN v
    /\ v.t = "text"
    /\ \E i \in 1..Len(v.v) : v.v[i] \notin {" ", "\t", "\n"}

\* a domain that is neither missing nor falsy
DomainGiven(v) == v # Undefined /\ v # Null /\ v # [t |-> "string", v |-> ""]

\* the request reached the handler of POST path and was answered by it
AnsweredByHandler(path) ==
    /\ hPc = "sent"
    /\ hReq.method = "POST"
    /\ hReq.path = path
    /\ hReq.parse = "ok"
    /\ hErr = "none"
    /\ hResp.status # 429

\* C13 as stated: detect-domain and generate-questions answer 400, without
\* calling detectDomain or generateQuestions, exactly the requests whose
\* prompt is missing, not a string or blank (and, for generate-questions,
\* whose domain is missing or falsy), and answer every other request with
\* success
C13_EndpointsRejectOrSucceed ==
    /\ AnsweredByHandler(<<"api", "detect-domain">>) =>
           IF NonBlankString(Field(hReq.body, "prompt"))
           THEN hResp.status = 200 /\ hResp.body.success = TRUE
           ELSE hResp.status = 400 /\ hResp.body.success = FALSE /\ hCalls = {}
    /\ AnsweredByHandler(<<"api", "generate-questions">>) =>
           IF /\ NonBlankString(Field(hReq.body, "prompt"))
              /\ DomainGiven(Field(hReq.body, "domain"))
           THEN hResp.status = 200 /\ hResp.body.success = TRUE
           ELSE hResp.status = 400 /\ hResp.body.success = FALSE /\ hCalls = {}

\* a request of the v1.0 shape: prompt and platform only
V1Shaped(r) ==
    r.domain = Undefined /\ r.context = Undefined /\ r.refinementAnswers = Undefined

\* C14 as stated: on a request of the v1.0 shape the handler rejects exactly
\* when the v1.0 handler rejects, and when the v1.0 handler answers success
\* with the improved text so does the handler, with the same text
C14_AnswersV1RequestsAsV1 ==
    (iPc = "done" /\ V1Shaped(iReq)) =>
        IF improvePromptV1_Validation(iReq) # NoResult
        THEN iResp.status = 400 /\ iOutcome = NoResult
        ELSE /\ iOutcome # NoResult
             /\ iResp.status # 400
             /\ improvePromptV1_Completion(iOutcome, clock).status = 200 =>
                    /\ iResp.status = 200
                    /\ iResp.body.success = TRUE
                    /\ iResp.body.improved
                           = improvePromptV1_Completion(iOutcome, clock).body.improved

\* C15 as stated: whatever callers did to earlier results, a call of
\* generateQuestions that returns a list returns the content of the catalog
\* as written
C15_LaterCallsReturnCatalogContent ==
    (returned # NoResult /\ returned.ok) =>
        returned.value = generateQuestions(returned.domain).value

\* the save requests on id whose handler has reached contextStore.set
ExecutedSaves(id) ==
    {k \in 1..Len(execOrder) :
        inflight[execOrder[k]].op = "save" /\ inflight[execOrder[k]].id = id}

\* C16: with context requests in flight together, every answered get is
\* not-found or the whole value of one save on its id (its fields and stamp,
\* nothing of another save), and when no request is in flight any more the
\* store holds for each id the value of the save executed last on it
C16_ConcurrentRequestsSeeWholeSaves ==
    /\ \A g \in Slots :
           (inflight[g].op = "get" /\ inflight[g].pc = "responded") =>
               IF inflight[g].resp.status = 404
               THEN inflight[g].resp.body.found = FALSE
               ELSE /\ inflight[g].resp.status = 200
                    /\ \E k \in ExecutedSaves(inflight[g].id) :
                           IsSavedValue(inflight[g].resp.body.context,
                                        inflight[execOrder[k]].context,
                                        inflight[execOrder[k]].savedAt)
    /\ (\A s \in Slots : inflight[s].pc \in {"free", "responded"}) =>
           \A id \in ConversationIds :
               IF ExecutedSaves(id) = {}
               THEN id \notin DOMAIN contextStore
               ELSE LET last == execOrder[CHOOSE k \in ExecutedSaves(id) :
                                             \A j \in ExecutedSaves(id) : j <= k]
                    IN  IsSavedValue(contextStore[id], inflight[last].context,
                                     inflight[last].savedAt)

\* two saves with different properties and a get on one id were in flight
\* together, the get read between the two saves and was answered after both
C16_Witness ==
    /\ \A s \in Slots : inflight[s].pc \in {"free", "responded"}
    /\ \E a, b, g \in Slots :
           /\ inflight[a].op = "save" /\ inflight[b].op = "save" /\ inflight[g].op = "get"
           /\ inflight[a].id = inflight[g].id /\ inflight[b].id = inflight[g].id
           /\ inflight[a].context # inflight[b].context
           /\ inflight[a].savedAt # 0 /\ inflight[b].savedAt # 0
           /\ execOrder = <<a, g, b>>
           /\ inflight[g].resp.status = 200
           /\ "keyDetails" \in DOMAIN inflight[g].resp.body.context
           /\ "keyDetails" \notin DOMAIN contextStore[inflight[g].id]

\* C17: one improve-prompt request calls the gateway at most once; when the
\* call ends, whatever its outcome, the handler is done without another
\* call, and a call that failed has the error response
C17_GatewayCalledAtMostOnce ==
    /\ [](/\ iGateway.calls <= 1
          /\ (iPc = "done" /\ iOutcome # NoResult /\ iOutcome.kind # "content") =>
                 (iResp.status >= 400 /\ iResp.body.success = FALSE /\ iGateway.calls = 1))
    /\ [][iPc = "awaiting" => (iPc' = "done" /\ iGateway'.calls = iGateway.calls)]_vars

\* a throttled gateway call ended in the 429 response after one call
C17_Witness ==
    /\ iPc = "done"
    /\ iOutcome # NoResult
    /\ iOutcome.kind = "error"
    /\ iOutcome.error.status = 429
    /\ iResp.status = 429
    /\ iGateway.calls = 1

\* the previous prompts of the buildSystemPrompt call are entries
\* {original, domain}, more than n of them
PreviousPromptsMoreThan(n) ==
    /\ aArgs.context # Undefined
    /\ "previousPrompts" \in DOMAIN aArgs.context
    /\ Len(aArgs.context.previousPrompts) > n
    /\ \A i \in 1..Len(aArgs.context.previousPrompts) :
           DOMAIN aArgs.context.previousPrompts[i] = {"original", "domain"}

\* refinementAnswers of the buildSystemPrompt call is absent or has no key
NoRefinementAnswers ==
    aArgs.refinementAnswers = Undefined \/ DOMAIN aArgs.refinementAnswers = {}

\* C18: without refinement answers and with more than one previous prompt
\* buildSystemPrompt returns, for every domain, the follow-up text alone: it
\* has the topic and all previous prompts, and neither the domain guidance
\* nor the context block and the rest of the full text
C18_FollowUpTextAlone ==
    (aResult # NoResult /\ NoRefinementAnswers /\ PreviousPromptsMoreThan(1)) =>
        /\ aResult.ok
        /\ DOMAIN aResult.value = {"kind", "topic", "prompts"}
        /\ aResult.value.kind = "followup"
        /\ aResult.value.prompts = aArgs.context.previousPrompts
        /\ aResult.value.topic =
               IF "conversationTopic" \in DOMAIN aArgs.context
               THEN aArgs.context.conversationTopic
               ELSE "various topics"

\* a follow-up with four previous prompts and a domain that has guidance
C18_Witness ==
    /\ aResult # NoResult
    /\ NoRefinementAnswers
    /\ PreviousPromptsMoreThan(3)
    /\ aArgs.domain = [t |-> "string", v |-> "technical"]
    /\ aResult.ok
    /\ aResult.value.kind = "followup"
    /\ Len(aResult.value.prompts) = 4

\* refinementAnswers of the buildSystemPrompt call has at least one key
SomeRefinementAnswers ==
    aArgs.refinementAnswers # Undefined /\ DOMAIN aArgs.refinementAnswers # {}

\* the previous prompts of the call, when the context has any, are entries
\* {original, domain}
PreviousPromptsAsDocumented ==
    (aArgs.context # Undefined /\ "previousPrompts" \in DOMAIN aArgs.context) =>
        \A i \in 1..Len(aArgs.context.previousPrompts) :
            DOMAIN aArgs.context.previousPrompts[i] = {"original", "domain"}

\* the originals of the last up to three previous prompts of the call, none
\* when the context is absent or has no previous prompts
LastThreeOriginals ==
    IF aArgs.context # Undefined /\ "previousPrompts" \in DOMAIN aArgs.context
    THEN LET prev == aArgs.context.previousPrompts
             from == IF Len(prev) > 3 THEN Len(prev) - 2 ELSE 1
         IN  [i \in 1..(Len(prev) - from + 1) |-> prev[from + i - 1].original]
    ELSE <<>>

\* C19: when refinementAnswers has at least one key, buildSystemPrompt
\* completes whatever the context is, and the text it returns has the
\* refinement directives with the last up to three previous prompts
C19_RefinementDirectivesForAnyContext ==
    (aResult # NoResult /\ SomeRefinementAnswers /\ PreviousPromptsAsDocumented) =>
        /\ aResult.ok
        /\ aResult.value.kind = "full"
        /\ aResult.value.contextInstructions =
               [block |-> "refinement", prompts |-> LastThreeOriginals]

\* the context of the buildSystemPrompt call has a non-empty array name
CallContextHas(name) ==
    /\ name \in DOMAIN aArgs.context
    /\ Len(aArgs.context[name]) > 0

\* the generic summary of the context of the call: topic, key details, the
\* last up to three previous prompts, the questions asked; empty with no
\* context
GenericSummaryOfCall ==
    IF aArgs.context = Undefined THEN EmptyBlock
    ELSE [block |-> "generic",
          lines |->
              (IF /\ "conversationTopic" \in DOMAIN aArgs.context
                  /\ aArgs.context.conversationTopic # ""
               THEN <<[line |-> "topic", topic |-> aArgs.context.conversationTopic]>>
               ELSE <<>>)
              \o (IF CallContextHas("keyDetails")
                  THEN <<[line |-> "keyDetails", joined |-> aArgs.context.keyDetails]>>
                  ELSE <<>>)
              \o (IF CallContextHas("previousPrompts")
                  THEN <<[line |-> "previousPrompts", prompts |-> LastThreeOriginals]>>
                  ELSE <<>>)
              \o (IF CallContextHas("questionsAsked")
                  THEN <<[line |-> "questionsAsked", joined |-> aArgs.context.questionsAsked]>>
                  ELSE <<>>)]

\* C20: for every context and refinementAnswers exactly one branch gives
\* the directive text of buildSystemPrompt, tried in the order refinement,
\* follow-up, generic: refinement answers give the refinement directives;
\* otherwise more than one previous prompt gives the follow-up text;
\* otherwise the generic summary is emitted, empty when there is no context
C20_OneBranchInOrder ==
    (aResult # NoResult /\ PreviousPromptsAsDocumented) =>
        /\ aResult.ok
        /\ IF SomeRefinementAnswers
           THEN /\ aResult.value.kind = "full"
                /\ aResult.value.contextInstructions =
                       [block |-> "refinement", prompts |-> LastThreeOriginals]
           ELSE IF PreviousPromptsMoreThan(1)
                THEN aResult.value.kind = "followup"
                ELSE /\ aResult.value.kind = "full"
                     /\ aResult.value.contextInstructions = GenericSummaryOfCall

\* the conversation context of the improve-prompt request, under
\* context.context or flat
ConversationOfRequest ==
    IF iReq.context # Undefined /\ "context" \in DOMAIN iReq.context
    THEN iReq.context.context
    ELSE iReq.context

\* the improve-prompt request is not the first prompt of its conversation:
\* its context has at least one earlier prompt
NotFirstPrompt ==
    /\ ConversationOfRequest # Undefined
    /\ "previousPrompts" \in DOMAIN ConversationOfRequest
    /\ Len(ConversationOfRequest.previousPrompts) >= 1

\* the improve-prompt request has no refinement answers
RequestWithoutRefinement ==
    iReq.refinementAnswers = Undefined \/ DOMAIN iReq.refinementAnswers = {}

\* C21: an improve-prompt request that is not the first prompt of its
\* conversation and has no refinement answers gets the follow-up text as
\* the instruction sent to the gateway
C21_LaterPromptIsFollowUp ==
    (iGateway.calls > 0 /\ NotFirstPrompt /\ RequestWithoutRefinement) =>
        iGateway.system.kind = "followup"

\* the places of the lower-cased classifier prompt where the text k starts
PlacesInPrompt(k) ==
    {p \in 1..Len(cPrompt) :
        /\ p + Len(k) - 1 <= Len(cPrompt)
        /\ \A j \in 1..Len(k) : LowerChar(cPrompt[p + j - 1]) = k[j]}

\* the keywords of a profile, as a set
KeywordSet(d) ==
    {DOMAIN_KEYWORDS_keywords[d][i] : i \in 1..Len(DOMAIN_KEYWORDS_keywords[d])}

C23_KeywordsMatchInAnyCase ==
    cResult # NoResult =>
        \A d \in ProfileDomains :
            (\E k \in KeywordSet(d) : PlacesInPrompt(ToLowerCase(k)) # {}) =>
                cResult.scores[d][1] >= DOMAIN_KEYWORDS_weight[d]

\* the decimal value, in tenths, of the largest score of the result
MaxScoreOfResult ==
    CHOOSE t \in {cResult.scores[d][1] : d \in ProfileDomains} :
        \A d \in ProfileDomains : cResult.scores[d][1] <= t

\* C24: the confidence is min(maxScore / 10, 1) to two decimal places, where
\* maxScore is the largest score: it lies in [0, 1], it is maxScore / 10
\* while maxScore is below 10 (so it does not decrease as maxScore grows),
\* and it is 1 from maxScore 10 on. Confidence is in hundredths, scores in
\* tenths
C24_ConfidenceIsCappedTenthOfMaxScore ==
    cResult # NoResult =>
        /\ cResult.confidence \in 0..100
        /\ MaxScoreOfResult < 100 => cResult.confidence = MaxScoreOfResult
        /\ MaxScoreOfResult >= 100 => cResult.confidence = 100

\* a prompt whose largest score is above 10 has confidence 1
C24_Witness ==
    /\ cResult # NoResult
    /\ MaxScoreOfResult > 100
    /\ cResult.confidence = 100

\* the whitespace-delimited tokens of the scored text: the places where a
\* run of characters other than whitespace starts
TokensOfText ==
    {i \in 1..Len(sText) :
        /\ sText[i] \notin {" ", "\t", "\n"}
        /\ (i = 1 \/ sText[i - 1] \in {" ", "\t", "\n"})}

\* C25: the completeness block is min(15, wordCount), with wordCount the
\* number of whitespace-delimited tokens of the text, for every text, the
\* empty one and those that begin or end with whitespace included
C25_CompletenessIsCappedTokenCount ==
    sResult # NoResult =>
        sResult.completeness =
            IF Cardinality(TokensOfText) < 15 THEN Cardinality(TokensOfText) ELSE 15

\* C30: the four blocks add up to at most 70, so the score of every text
\* is their sum and at most 70: the clamp to 100 changes nothing
C30_ScoreIsSumAtMostSeventy ==
    sResult # NoResult =>
        /\ sResult.clarity + sResult.structure + sResult.completeness
               + sResult.specificity <= 70
        /\ sResult.score = sResult.clarity + sResult.structure + sResult.completeness
                               + sResult.specificity
        /\ sResult.score <= 70

\* a text that scores 70
C30_Witness ==
    /\ sResult # NoResult
    /\ sResult.score = 70
    /\ Len(sText) > 0

\* C26: a getContext call, a GET /api/context request and a POST
\* /api/context request rejected for a missing conversationId or context
\* leave the store as it was: the same ids with the same values, savedAt
\* included
C26_GetAndRejectedSaveLeaveStore ==
    [][(\/ stOp'.op \in {"getContext", "GET /api/context"}
        \/ (stOp'.op = "POST /api/context" /\ stOp'.status = 400))
          => contextStore' = contextStore]_vars

\* a save was rejected for its missing context while the store held an
\* entry under the id of the request
C26_Witness ==
    /\ stOp.op = "POST /api/context"
    /\ stOp.status = 400
    /\ stOp.body.error = "context is required"
    /\ stOp.id.v \in DOMAIN contextStore
    /\ contextStore[stOp.id.v].savedAt < clock

\* C27: through the endpoints an id that was saved stays saved: no request
\* calls deleteContext, no step takes an id out of the store, and a
\* GET /api/context/:conversationId that reaches its handler while the id
\* is in the store answers 200 with the entry
C27_SavedIdStaysSaved ==
    /\ []("deleteContext" \notin hCalls)
    /\ []((/\ hPc = "sent"
           /\ hCalls = {"getContext"}
           /\ hReq.path[3] \in DOMAIN contextStore) =>
              (/\ hResp.status = 200
               /\ hResp.body.found = TRUE
               /\ hResp.body.context = contextStore[hReq.path[3]]))
    /\ [][\A id \in DOMAIN contextStore : id \in DOMAIN contextStore']_vars

\* a DELETE request for a saved id was answered by the 404 handler and the
\* id is still in the store
C27_Witness ==
    /\ hPc = "sent"
    /\ hReq.method = "DELETE"
    /\ hReq.path = <<"api", "context", "c1">>
    /\ hResp.status = 404
    /\ "c1" \in DOMAIN contextStore

\* C28: one context value serves the three consumers of an improve-prompt
\* request, for the flat shape and for the shape with the conversation under
\* context.context: there is one value, the context of the request or the
\* conversation in it, from which the instruction and the user message sent
\* to the gateway are built and with which the questions are filtered
C28_OneContextForAllConsumers ==
    LET Serves(X) ==
            /\ buildSystemPrompt(iReq.domain, X, iReq.refinementAnswers)
                   = Return(iGateway.system)
            /\ buildUserMessage(iReq.prompt.v, X) = iGateway.user
            /\ generateContextAwareQuestions(PropertyKey(iReq.domain), X)
                   = generateContextAwareQuestions(PropertyKey(iReq.domain), iReq.context)
    IN  iGateway.calls > 0 =>
            Serves(iReq.context) \/ Serves(ConversationOfRequest)

\* the improve-prompt request that a body is read as
ImproveRequestOf(body) ==
    [f \in {"prompt", "platform", "domain", "context", "refinementAnswers"} |-> Field(body, f)]

\* the response of the improve-prompt handler as a function of the request
\* body, of what the gateway did and of the time
ImproveResponseOf(body, outcome, now) ==
    LET r == ImproveRequestOf(body)
    IN  IF Falsy(r.prompt) \/ ~IsString(r.prompt)
        THEN Response(400, ErrorBody("Invalid prompt: must be a non-empty string"))
        ELSE IF Len(Trim(r.prompt.v)) = 0
        THEN Response(400, ErrorBody("Prompt cannot be empty"))
        ELSE IF Falsy(r.platform) \/ r.platform \notin {Str("chatgpt"), Str("claude")}
        THEN Response(400, ErrorBody("Invalid platform: must be 'chatgpt' or 'claude'"))
        ELSE IF ~buildSystemPrompt(r.domain, EffectiveContext(r.context), r.refinementAnswers).ok
        THEN CatchResponse(RuntimeErrors.TypeError)
        ELSE GatewayResponse(r, outcome, now)

\* the request being handled is for one of the three endpoints
ForStorelessEndpoint ==
    /\ hReq # NoResult
    /\ hReq.method = "POST"
    /\ hReq.path \in {<<"api", "detect-domain">>, <<"api", "generate-questions">>,
                      <<"api", "improve-prompt">>}

\* C29: the improve-prompt, detect-domain and generate-questions handlers
\* neither read nor write the context store: the instruction and the user
\* message sent to the gateway and the response are the values computed from
\* the request body alone (with what the gateway did), whatever the store
\* holds, no storage function is called, and no step of these handlers
\* changes the store
C29_HandlersNeitherReadNorWriteStore ==
    /\ []((ForStorelessEndpoint /\ iGateway.calls > 0) =>
              LET r == ImproveRequestOf(hReq.body)
              IN  /\ Return(iGateway.system)
                         = buildSystemPrompt(r.domain, EffectiveContext(r.context),
                                             r.refinementAnswers)
                  /\ iGateway.user = buildUserMessage(r.prompt.v, r.context))
    /\ [](ForStorelessEndpoint =>
              hCalls \cap {"saveContext", "getContext", "deleteContext"} = {})
    /\ [](AnsweredByHandler(<<"api", "detect-domain">>) =>
              hResp = detectDomainEndpoint(hReq.body).resp)
    /\ [](AnsweredByHandler(<<"api", "generate-questions">>) =>
              hResp = generateQuestionsEndpoint(hReq.body).resp)
    /\ [][(ForStorelessEndpoint /\ hPc \in {"routes", "improve"}) =>
              /\ contextStore' = contextStore
              /\ (hPc' = "sent" /\ hReq.path = <<"api", "improve-prompt">>) =>
                     hResp' = ImproveResponseOf(hReq.body, iOutcome, clock)]_vars

\* an improve-prompt request that names the saved conversation c1 went to
\* the gateway and was answered while c1 was in the store
C29_Witness ==
    /\ hPc = "sent"
    /\ hReq.path = <<"api", "improve-prompt">>
    /\ Field(hReq.body, "conversationId") = Str("c1")
    /\ "c1" \in DOMAIN contextStore
    /\ iGateway.calls = 1
    /\ iOutcome # NoResult
    /\ hResp # NoResult

====
